---- MODULE Spec2Model ----
(***************************************************************************)
(* AutoUAM state management (src/autouam/core/state.py): the UAMState      *)
(* record, its JSON persistence through a temporary file and an atomic     *)
(* rename, corruption recovery on load, update_state's transition          *)
(* timestamps and the minimum-duration check, together with the control    *)
(* tick that drives them.                                                  *)
(*                                                                         *)
(* Times are whole seconds of time.time().  Optional values are <<>> for   *)
(* None and <<x>> for a present x.  A file is [exists, text]; text is the  *)
(* sequence of JSON tokens written to it, so a partial write is a proper   *)
(* prefix of the complete text.                                            *)
(***************************************************************************)
EXTENDS Integers, Sequences, FiniteSets, TLC

VARIABLES now, self_state, fs, ret, last_saved, last_transition, faults,
          samples, max_samples, baseline, last_update,
          cpu_count_cache, cpu_count_cache_time, observed, computed_at, calculated,
          writers, overlapped, server

(***************************************************************************)
(* The variables of the StateManager and its files, and those of the       *)
(* LoadMonitor with its LoadBaseline.  observed is the history of all      *)
(* add_sample calls, computed_at the time of the last calculate_baseline   *)
(* call that produced a baseline, and calculated what the calculate_       *)
(* baseline calls since the last add_sample did; the program keeps none of *)
(* the three.  writers is how far each process calling save_state on the   *)
(* state path has got, and overlapped whether two such calls were ever in  *)
(* progress at once.  server is the Cloudflare API the actuator talks to.  *)
(***************************************************************************)
manager_vars == <<self_state, fs, last_saved, last_transition, faults>>

monitor_vars == <<samples, max_samples, baseline, last_update,
                  cpu_count_cache, cpu_count_cache_time, observed, computed_at,
                  calculated>>

writer_vars == <<writers, overlapped>>

vars == <<now, ret, manager_vars, monitor_vars, writer_vars, server>>

(***************************************************************************)
(* Bounds of the model.                                                    *)
(***************************************************************************)
MaxTime == 4

MinimumDwellSeconds == 2

MaxFaults == 1

MaxFaultTime == 1

MaxSamples == 3

MaxHours == 1

MaxCount == 21

(* The longest the actuator waits in all for a rate-limited call, in seconds. *)
MaxTotalWait == 120

(***************************************************************************)
(* Configuration values used by the tests.                                 *)
(***************************************************************************)
AbsoluteUpper == 2

AbsoluteLower == 1

(***************************************************************************)
(* The default capacity of a LoadBaseline's window.                        *)
(***************************************************************************)
DefaultMaxSamples == 1440

(***************************************************************************)
(* The seconds a cached CPU count stays valid.                             *)
(***************************************************************************)
cpu_count_cache_ttl == 300

(* MockCloudflareServer answers 429 once this many writes were accepted,   *)
(* with this Retry-After.                                                  *)
RateLimitAfter == 10

RetryAfter == 60

Times == 0..MaxTime

Loads == {0, 2, 3}

Thresholds == {AbsoluteLower, AbsoluteUpper}

Reasons == {"load high", "load normal"}

None == <<>>

Some(x) == <<x>>

(***************************************************************************)
(* UAMState, a dataclass of seven fields.                                  *)
(***************************************************************************)
UAMState(is_enabled, last_check, load_average, threshold_used, reason, enabled_at, disabled_at) ==
    [is_enabled |-> is_enabled, last_check |-> last_check,
     load_average |-> load_average, threshold_used |-> threshold_used,
     reason |-> reason, enabled_at |-> enabled_at, disabled_at |-> disabled_at]

FieldNames == <<"is_enabled", "last_check", "load_average", "threshold_used",
                "reason", "enabled_at", "disabled_at">>

RequiredFields == {"is_enabled", "last_check", "load_average", "threshold_used", "reason"}

AllFields == {FieldNames[i] : i \in 1..Len(FieldNames)}

(***************************************************************************)
(* Python values as they sit in a dict, and JSON literals as they sit in   *)
(* the text.                                                               *)
(***************************************************************************)
PyBool(b) == [t |-> "bool", b |-> b, n |-> 0, s |-> ""]

PyNum(n) == [t |-> "float", b |-> FALSE, n |-> n, s |-> ""]

PyStr(s) == [t |-> "str", b |-> FALSE, n |-> 0, s |-> s]

PyNone == [t |-> "NoneType", b |-> FALSE, n |-> 0, s |-> ""]

PyOptional(o) == IF o = None THEN PyNone ELSE PyNum(o[1])

Literal(lit, n, s) == [lit |-> lit, n |-> n, s |-> s]

json_encode(v) ==
    CASE v.t = "bool" -> Literal(IF v.b THEN "true" ELSE "false", 0, "")
      [] v.t = "NoneType" -> Literal("null", 0, "")
      [] v.t = "float" -> Literal("number", v.n, "")
      [] OTHER -> Literal("string", 0, v.s)

json_decode(l) ==
    CASE l.lit = "true" -> PyBool(TRUE)
      [] l.lit = "false" -> PyBool(FALSE)
      [] l.lit = "null" -> PyNone
      [] l.lit = "number" -> PyNum(l.n)
      [] OTHER -> PyStr(l.s)

Token(kind, key, value) == [kind |-> kind, key |-> key, value |-> value]

LBrace == Token("{", "", Literal("null", 0, ""))

RBrace == Token("}", "", Literal("null", 0, ""))

LBracket == Token("[", "", Literal("null", 0, ""))

RBracket == Token("]", "", Literal("null", 0, ""))

Member(key, lit) == Token("member", key, lit)

Item(key, value) == [key |-> key, value |-> value]

(***************************************************************************)
(* Variant of to_dict that leaves disabled_at out.                         *)
(***************************************************************************)
to_dict_short(state) ==
    << Item("is_enabled", PyBool(state.is_enabled)),
       Item("last_check", PyNum(state.last_check)),
       Item("load_average", PyNum(state.load_average)),
       Item("threshold_used", PyNum(state.threshold_used)),
       Item("reason", PyStr(state.reason)),
       Item("enabled_at", PyOptional(state.enabled_at)) >>

(***************************************************************************)
(* UAMState.to_dict: asdict(self), the fields in declaration order.        *)
(***************************************************************************)
to_dict(state) ==
    << Item("is_enabled", PyBool(state.is_enabled)),
       Item("last_check", PyNum(state.last_check)),
       Item("load_average", PyNum(state.load_average)),
       Item("threshold_used", PyNum(state.threshold_used)),
       Item("reason", PyStr(state.reason)),
       Item("enabled_at", PyOptional(state.enabled_at)),
       Item("disabled_at", PyOptional(state.disabled_at)) >>

(***************************************************************************)
(* json.dump of a dict: an object with one member per item.                *)
(***************************************************************************)
json_dump(d) ==
    <<LBrace>> \o [i \in 1..Len(d) |-> Member(d[i].key, json_encode(d[i].value))] \o <<RBrace>>

IsObjectText(text) ==
    /\ Len(text) >= 2
    /\ text[1].kind = "{"
    /\ text[Len(text)].kind = "}"
    /\ \A i \in 2..(Len(text) - 1) : text[i].kind = "member"

IsArrayText(text) == text = <<LBracket, RBracket>>

IsScalarText(text) == Len(text) = 1 /\ text[1].kind = "scalar"

(***************************************************************************)
(* json.load: the parsed value, or JSONDecodeError for text that is not    *)
(* one complete JSON value (empty or truncated).                           *)
(***************************************************************************)
json_load(text) ==
    IF IsObjectText(text)
    THEN [exc |-> "", type |-> "dict",
          items |-> [i \in 1..(Len(text) - 2) |->
                        Item(text[i + 1].key, json_decode(text[i + 1].value))]]
    ELSE IF IsArrayText(text) THEN [exc |-> "", type |-> "list", items |-> <<>>]
    ELSE IF IsScalarText(text) THEN [exc |-> "", type |-> "scalar", items |-> <<>>]
    ELSE [exc |-> "JSONDecodeError", type |-> "", items |-> <<>>]

Keys(d) == {d[i].key : i \in 1..Len(d)}

Get(d, key, default) ==
    IF key \in Keys(d)
    THEN (d[CHOOSE i \in 1..Len(d) : d[i].key = key]).value
    ELSE default

AsOptional(v) == IF v.t = "NoneType" THEN None ELSE Some(v.n)

(***************************************************************************)
(* UAMState.from_dict: the dict's items become the constructor's keyword   *)
(* arguments.  An unexpected keyword or a missing                          *)
(* required field is a TypeError; enabled_at and disabled_at default to    *)
(* None.  The values are taken as they are.                                *)
(***************************************************************************)
from_dict_exc(d) ==
    IF Keys(d) \subseteq AllFields /\ RequiredFields \subseteq Keys(d) THEN "" ELSE "TypeError"

from_dict(d) ==
    UAMState(Get(d, "is_enabled", PyNone).b,
             Get(d, "last_check", PyNone).n,
             Get(d, "load_average", PyNone).n,
             Get(d, "threshold_used", PyNone).n,
             Get(d, "reason", PyNone).s,
             AsOptional(Get(d, "enabled_at", PyNone)),
             AsOptional(Get(d, "disabled_at", PyNone)))

(***************************************************************************)
(* Python's exception classes: PermissionError is an OSError, IOError is   *)
(* another name of OSError, JSONDecodeError and StatisticsError are        *)
(* ValueErrors, IndexError is a LookupError.                               *)
(***************************************************************************)
Bases(exc) ==
    CASE exc = "PermissionError" -> {"PermissionError", "OSError", "IOError"}
      [] exc = "FileNotFoundError" -> {"FileNotFoundError", "OSError", "IOError"}
      [] exc = "OSError" -> {"OSError", "IOError"}
      [] exc = "JSONDecodeError" -> {"JSONDecodeError", "ValueError"}
      [] exc = "ValueError" -> {"ValueError"}
      [] exc = "TypeError" -> {"TypeError"}
      [] exc = "StatisticsError" -> {"StatisticsError", "ValueError"}
      [] exc = "IndexError" -> {"IndexError", "LookupError"}
      [] OTHER -> {}

Catches(classes, exc) == exc # "" /\ Bases(exc) \cap classes # {}

(***************************************************************************)
(* The files next to the state file.  Path.with_suffix replaces the        *)
(* suffix of the path.                                                     *)
(***************************************************************************)
Path(stem, suffix) == [stem |-> stem, suffix |-> suffix]

with_suffix(path, suffix) == [path EXCEPT !.suffix = suffix]

state_file == Path("/var/lib/autouam/state", ".json")

(***************************************************************************)
(* Variant of temp_path: the state file written in place.                  *)
(***************************************************************************)
temp_path_in_place == state_file

temp_path == with_suffix(state_file, ".tmp")

backup_path == with_suffix(state_file, ".corrupted")

Paths == {with_suffix(state_file, x) : x \in {".json", ".tmp", ".corrupted"}}

NoFile == [exists |-> FALSE, text |-> <<>>]

File(text) == [exists |-> TRUE, text |-> text]

EmptyDisk == [p \in Paths |-> NoFile]

(***************************************************************************)
(* Path.rename / Path.replace: one atomic step of the file system.         *)
(***************************************************************************)
rename(files, src, dst) ==
    IF src = dst THEN files ELSE [files EXCEPT ![dst] = files[src], ![src] = NoFile]

unlink(files, path) == [files EXCEPT ![path] = NoFile]

(***************************************************************************)
(* What the environment does to one file operation: nothing, or an         *)
(* exception raised at a site.                                             *)
(***************************************************************************)
Fault(site, exc, k, unlink_ok) == [site |-> site, exc |-> exc, k |-> k, unlink_ok |-> unlink_ok]

NoFault == Fault("none", "", 0, TRUE)

LoadFaults == {NoFault, Fault("read", "PermissionError", 0, TRUE), Fault("read", "OSError", 0, TRUE),
               Fault("rename", "OSError", 0, TRUE)}

(***************************************************************************)
(* A write that fails has put k tokens of the text into the temporary      *)
(* file; unlink_ok tells whether the clean-up's unlink succeeds.           *)
(***************************************************************************)
PartialLengths == {0, 4}

(***************************************************************************)
(* The file operations that failed in a call are counted, up to MaxFaults. *)
(***************************************************************************)
Failures(fault_seq) == Cardinality({i \in 1..Len(fault_seq) : fault_seq[i].site # "none"})

Failed(fault_seq) ==
    /\ faults + Failures(fault_seq) <= MaxFaults
    /\ faults' = faults + Failures(fault_seq)

SaveFaults ==
    {NoFault, Fault("mkdir", "PermissionError", 0, TRUE)}
    \cup {Fault("open", "PermissionError", 0, u) : u \in BOOLEAN}
    \cup {Fault("write", "OSError", k, u) : k \in PartialLengths, u \in BOOLEAN}
    \cup {Fault("replace", "OSError", 0, u) : u \in BOOLEAN}

get_initial_state(t) == UAMState(FALSE, t, 0, 0, "Initial state", None, None)

(***************************************************************************)
(* The except clauses of load_state, in the order they are tried.          *)
(***************************************************************************)
LoadIOErrors == {"IOError", "PermissionError"}

(***************************************************************************)
(* Variant of LoadParseErrors: no clause of its own for JSONDecodeError,   *)
(* which then reaches the ValueError clause.                               *)
(***************************************************************************)
LoadParseErrors_none == {}

LoadParseErrors == {"JSONDecodeError"}

LoadDataErrors == {"ValueError", "TypeError"}

(***************************************************************************)
(* The exception raised inside load_state's try block, "" if none.         *)
(***************************************************************************)
load_state_try(files, fault) ==
    LET parsed == json_load(files[state_file].text)
    IN  IF fault.site = "read" THEN fault.exc
        ELSE IF parsed.exc # "" THEN parsed.exc
        ELSE IF parsed.type # "dict" THEN "ValueError"
        ELSE from_dict_exc(parsed.items)

(***************************************************************************)
(* The backup attempted for a corrupted file; an OSError of the rename is  *)
(* passed over.                                                            *)
(***************************************************************************)
backup_corrupted(files, fault) ==
    IF fault.site = "rename" THEN files ELSE rename(files, state_file, backup_path)

Outcome(state, files, exc, source) ==
    [state |-> state, fs |-> files, exc |-> exc, source |-> source]

(***************************************************************************)
(* Variant of load_state that reads the file on every call, cached state   *)
(* or not.                                                                 *)
(***************************************************************************)
load_state_rereading(state, files, t, fault) ==
    LET initial == Some(get_initial_state(t))
        exc == load_state_try(files, fault)
    IN  IF ~files[state_file].exists THEN Outcome(initial, files, "", "initial")
        ELSE IF exc = ""
             THEN Outcome(Some(from_dict(json_load(files[state_file].text).items)), files, "", "file")
        ELSE IF Catches(LoadIOErrors, exc) THEN Outcome(initial, files, "", "io error")
        ELSE IF Catches(LoadParseErrors, exc)
             THEN Outcome(initial, backup_corrupted(files, fault), "", "corrupted")
        ELSE IF Catches(LoadDataErrors, exc) THEN Outcome(initial, files, "", "invalid")
        ELSE Outcome(None, files, exc, "raised")

(***************************************************************************)
(* load_state: the cached state, or the state read from the file, or the   *)
(* initial state.  exc is the exception that leaves the method.            *)
(***************************************************************************)
load_state(state, files, t, fault) ==
    LET initial == Some(get_initial_state(t))
        exc == load_state_try(files, fault)
    IN  IF state # None THEN Outcome(state, files, "", "memory")
        ELSE IF ~files[state_file].exists THEN Outcome(initial, files, "", "initial")
        ELSE IF exc = ""
             THEN Outcome(Some(from_dict(json_load(files[state_file].text).items)), files, "", "file")
        ELSE IF Catches(LoadIOErrors, exc) THEN Outcome(initial, files, "", "io error")
        ELSE IF Catches(LoadParseErrors, exc)
             THEN Outcome(initial, backup_corrupted(files, fault), "",
                          IF fault.site = "rename" THEN "corrupted, no backup" ELSE "corrupted")
        ELSE IF Catches(LoadDataErrors, exc) THEN Outcome(initial, files, "", "invalid")
        ELSE Outcome(None, files, exc, "raised")

(***************************************************************************)
(* How far the write of save_state gets: the temporary file opened for     *)
(* writing holds the first k tokens of the text; once all are written and  *)
(* the file is closed it replaces the state file.                          *)
(***************************************************************************)
written(files, text, k) == [files EXCEPT ![temp_path] = File(SubSeq(text, 1, k))]

(***************************************************************************)
(* Variant of replaced: the temporary file is written and never moved.     *)
(***************************************************************************)
replaced_not_moved(files, text) == written(files, text, Len(text))

replaced(files, text) == rename(written(files, text, Len(text)), temp_path, state_file)

SaveCleanupErrors == {"IOError", "PermissionError"}

(***************************************************************************)
(* Variant of SaveSwallowedErrors: only PermissionError is swallowed.      *)
(***************************************************************************)
SaveSwallowedErrors_narrow == {"PermissionError"}

SaveSwallowedErrors == {"IOError", "PermissionError"}

(***************************************************************************)
(* The files an interrupted save leaves behind, before any clean-up.       *)
(***************************************************************************)
save_state_files(files, text, fault) ==
    CASE fault.site = "none" -> replaced(files, text)
      [] fault.site = "write" -> written(files, text, fault.k)
      [] fault.site = "replace" -> written(files, text, Len(text))
      [] OTHER -> files

save_state_cleanup(files, fault) ==
    IF /\ fault.site \in {"open", "write", "replace"}
       /\ Catches(SaveCleanupErrors, fault.exc)
       /\ files[temp_path].exists
       /\ fault.unlink_ok
    THEN unlink(files, temp_path)
    ELSE files

(***************************************************************************)
(* save_state: caches the state, writes it to the temporary file and       *)
(* moves that over the state file; I/O errors are logged and swallowed.    *)
(***************************************************************************)
save_state(state, files, fault) ==
    LET text == json_dump(to_dict(state))
    IN  Outcome(Some(state),
                save_state_cleanup(save_state_files(files, text, fault), fault),
                IF Catches(SaveSwallowedErrors, fault.exc) THEN "" ELSE fault.exc,
                fault.site)

(***************************************************************************)
(* Variants of update_timestamps: one that clears enabled_at when UAM is   *)
(* disabled, one that keeps disabled_at when UAM is enabled again.         *)
(***************************************************************************)
update_timestamps_clearing(state, was_enabled, is_enabled, current_time) ==
    IF is_enabled /\ ~was_enabled
    THEN [state EXCEPT !.enabled_at = Some(current_time), !.disabled_at = None]
    ELSE IF ~is_enabled /\ was_enabled
    THEN [state EXCEPT !.enabled_at = None, !.disabled_at = Some(current_time)]
    ELSE state

update_timestamps_keeping(state, was_enabled, is_enabled, current_time) ==
    IF is_enabled /\ ~was_enabled
    THEN [state EXCEPT !.enabled_at = Some(current_time)]
    ELSE IF ~is_enabled /\ was_enabled
    THEN [state EXCEPT !.disabled_at = Some(current_time)]
    ELSE state

(***************************************************************************)
(* Variant of update_timestamps that stamps enabled_at on every call with  *)
(* is_enabled true, transition or not.                                     *)
(***************************************************************************)
update_timestamps_refreshing(state, was_enabled, is_enabled, current_time) ==
    IF is_enabled
    THEN [state EXCEPT !.enabled_at = Some(current_time), !.disabled_at = None]
    ELSE IF was_enabled
    THEN [state EXCEPT !.disabled_at = Some(current_time)]
    ELSE state

(***************************************************************************)
(* Variant of update_timestamps that stamps enabled_at one second late.    *)
(***************************************************************************)
update_timestamps_late(state, was_enabled, is_enabled, current_time) ==
    IF is_enabled /\ ~was_enabled
    THEN [state EXCEPT !.enabled_at = Some(current_time + 1), !.disabled_at = None]
    ELSE IF ~is_enabled /\ was_enabled
    THEN [state EXCEPT !.disabled_at = Some(current_time)]
    ELSE state

(***************************************************************************)
(* The timestamps update_state sets on a transition.                       *)
(***************************************************************************)
update_timestamps(state, was_enabled, is_enabled, current_time) ==
    IF is_enabled /\ ~was_enabled
    THEN [state EXCEPT !.enabled_at = Some(current_time), !.disabled_at = None]
    ELSE IF ~is_enabled /\ was_enabled
    THEN [state EXCEPT !.disabled_at = Some(current_time)]
    ELSE state

(***************************************************************************)
(* The state update_state builds from the loaded one.                      *)
(***************************************************************************)
updated_state(state, current_time, is_enabled, load_average, threshold_used, reason) ==
    update_timestamps([state EXCEPT !.is_enabled = is_enabled,
                                    !.last_check = current_time,
                                    !.load_average = load_average,
                                    !.threshold_used = threshold_used,
                                    !.reason = reason],
                      state.is_enabled, is_enabled, current_time)

(***************************************************************************)
(* update_state: load, update, save, return the state.                     *)
(***************************************************************************)
update_state(state, files, t, is_enabled, load_average, threshold_used, reason, lf, sf) ==
    LET loaded == load_state(state, files, t, lf)
    IN  IF loaded.exc # "" THEN loaded
        ELSE save_state(updated_state(loaded.state[1], t, is_enabled, load_average,
                                      threshold_used, reason),
                        loaded.fs, sf)

(***************************************************************************)
(* Variant of can_disable_uam whose comparison is off by one second.       *)
(***************************************************************************)
can_disable_uam_early(state, t, minimum_duration) ==
    IF ~state.is_enabled \/ state.enabled_at = None
    THEN TRUE
    ELSE t - state.enabled_at[1] + 1 >= minimum_duration

(***************************************************************************)
(* Variant of can_disable_uam whose comparison is strict.                  *)
(***************************************************************************)
can_disable_uam_strict(state, t, minimum_duration) ==
    IF ~state.is_enabled \/ state.enabled_at = None
    THEN TRUE
    ELSE t - state.enabled_at[1] > minimum_duration

(***************************************************************************)
(* Variant of get_uam_duration that counts an absent enabled_at as the     *)
(* epoch.                                                                  *)
(***************************************************************************)
get_uam_duration_since_epoch(state, t) ==
    IF ~state.is_enabled THEN None
    ELSE Some(t - (IF state.enabled_at = None THEN 0 ELSE state.enabled_at[1]))

(***************************************************************************)
(* get_uam_duration and can_disable_uam on a loaded state at time t.       *)
(***************************************************************************)
get_uam_duration(state, t) ==
    IF ~state.is_enabled \/ state.enabled_at = None THEN None ELSE Some(t - state.enabled_at[1])

can_disable_uam(state, t, minimum_duration) ==
    LET duration == get_uam_duration(state, t)
    IN  IF duration = None THEN TRUE ELSE duration[1] >= minimum_duration

(***************************************************************************)
(* The outcome of the last call: the method, the exception that left it    *)
(* ("" if none), the state it returned and where that state came from.     *)
(***************************************************************************)
Ret(op, outcome) ==
    [op |-> op, exc |-> outcome.exc, value |-> outcome.state, source |-> outcome.source]

Idle(op) == [op |-> op, exc |-> "", value |-> None, source |-> ""]

(***************************************************************************)
(* The transition an update_state call makes, for last_transition.         *)
(***************************************************************************)
Transition(was_enabled, is_enabled, previous) ==
    IF is_enabled /\ ~was_enabled THEN "enable"
    ELSE IF ~is_enabled /\ was_enabled THEN "disable"
    ELSE previous

(***************************************************************************)
(* StateManager.__init__ of a new process on the same path.                *)
(***************************************************************************)
Restart ==
    /\ self_state' = None
    /\ ret' = Idle("restart")
    /\ UNCHANGED <<now, fs, last_saved, last_transition, faults, monitor_vars, writer_vars, server>>

(***************************************************************************)
(* time.time() moves on between calls.                                     *)
(***************************************************************************)
AdvanceTo(limit) ==
    /\ now < limit
    /\ now' = now + 1
    /\ ret' = Idle("time")
    /\ UNCHANGED <<self_state, fs, last_saved, last_transition, faults, monitor_vars, writer_vars, server>>

Advance == AdvanceTo(MaxTime)

LoadState(lf) ==
    LET r == load_state(self_state, fs, now, lf)
    IN  /\ Failed(<<lf>>)
        /\ self_state' = r.state
        /\ fs' = r.fs
        /\ ret' = Ret("load_state", r)
        /\ UNCHANGED <<now, last_saved, last_transition, monitor_vars, writer_vars, server>>

SaveState(state, sf) ==
    LET r == save_state(state, fs, sf)
    IN  /\ Failed(<<sf>>)
        /\ self_state' = r.state
        /\ fs' = r.fs
        /\ ret' = Ret("save_state", r)
        /\ last_saved' = Some(state)
        /\ UNCHANGED <<now, last_transition, monitor_vars, writer_vars, server>>

UpdateState(is_enabled, load_average, threshold_used, reason, lf, sf) ==
    LET loaded == load_state(self_state, fs, now, lf)
        r == update_state(self_state, fs, now, is_enabled, load_average, threshold_used,
                          reason, lf, sf)
    IN  /\ Failed(<<lf, sf>>)
        /\ self_state' = r.state
        /\ fs' = r.fs
        /\ ret' = Ret("update_state", r)
        /\ last_saved' = IF loaded.exc = "" THEN r.state ELSE last_saved
        /\ last_transition' =
              IF loaded.exc = ""
              THEN Transition(loaded.state[1].is_enabled, is_enabled, last_transition)
              ELSE last_transition
        /\ UNCHANGED <<now, monitor_vars, writer_vars, server>>

(***************************************************************************)
(* get_state_summary: drops the cached state, loads again, reports.        *)
(***************************************************************************)
GetStateSummary(lf) ==
    LET r == load_state(None, fs, now, lf)
    IN  /\ Failed(<<lf>>)
        /\ self_state' = r.state
        /\ fs' = r.fs
        /\ ret' = Ret("get_state_summary", r)
        /\ UNCHANGED <<now, last_saved, last_transition, monitor_vars, writer_vars, server>>

(***************************************************************************)
(* The process is killed inside the save_state of an update_state call:    *)
(* while the temporary file holds k tokens of the text (all of them once   *)
(* it is closed), or just after the rename.  A new process follows.        *)
(***************************************************************************)
save_state_killed(state, files, k, renamed) ==
    LET text == json_dump(to_dict(state))
    IN  IF renamed THEN replaced(files, text) ELSE written(files, text, k)

UpdateStateKilled(is_enabled, load_average, threshold_used, reason, k, renamed) ==
    LET loaded == load_state(self_state, fs, now, NoFault)
        state == updated_state(loaded.state[1], now, is_enabled, load_average,
                               threshold_used, reason)
    IN  /\ faults < MaxFaults
        /\ faults' = faults + 1
        /\ self_state' = None
        /\ fs' = save_state_killed(state, loaded.fs, k, renamed)
        /\ ret' = [op |-> "killed", exc |-> "", value |-> Some(state),
                   source |-> IF renamed THEN "renamed" ELSE "writing"]
        /\ last_saved' = Some(state)
        /\ UNCHANGED <<now, last_transition, monitor_vars, writer_vars, server>>

(***************************************************************************)
(* One control tick: load the state, compare the load with the            *)
(* thresholds, switch when the remote call succeeded, persist.             *)
(***************************************************************************)
Decide(state, load, t) ==
    IF ~state.is_enabled /\ load > AbsoluteUpper THEN "enable"
    ELSE IF /\ state.is_enabled
            /\ load < AbsoluteLower
            /\ can_disable_uam(state, t, MinimumDwellSeconds)
         THEN "disable"
    ELSE "noop"

Tick(load, actuated) ==
    LET loaded == load_state(self_state, fs, now, NoFault)
        decision == Decide(loaded.state[1], load, now)
    IN  CASE decision = "enable" /\ actuated ->
               UpdateState(TRUE, load, AbsoluteUpper, "load high", NoFault, NoFault)
          [] decision = "disable" /\ actuated ->
               UpdateState(FALSE, load, AbsoluteLower, "load normal", NoFault, NoFault)
          [] decision = "noop" ->
               UpdateState(loaded.state[1].is_enabled, load,
                           IF loaded.state[1].is_enabled THEN AbsoluteLower ELSE AbsoluteUpper,
                           "no action", NoFault, NoFault)
          [] OTHER ->
               /\ self_state' = loaded.state
               /\ fs' = loaded.fs
               /\ ret' = [op |-> "tick failed", exc |-> "", value |-> loaded.state, source |-> ""]
               /\ UNCHANGED <<now, last_saved, last_transition, faults, monitor_vars, writer_vars, server>>

(***************************************************************************)
(* The processes that call save_state on the state path, none of them      *)
(* inside a call.                                                          *)
(***************************************************************************)
Processes == {"tick", "override"}

Writer(pc, state, fd) == [pc |-> pc, state |-> state, fd |-> fd]

NoWriters ==
    /\ writers = [p \in Processes |-> Writer("idle", None, None)]
    /\ overlapped = FALSE

(***************************************************************************)
(* MockCloudflareServer.__init__: the security level of the zone and the   *)
(* number of writes accepted so far.                                       *)
(***************************************************************************)
Server(security_level, rate_limit_counter) ==
    [security_level |-> security_level, rate_limit_counter |-> rate_limit_counter]

NewServer == server = Server("essentially_off", 0)

(***************************************************************************)
(* LoadBaseline.__init__ and LoadMonitor.__init__: an empty window of the  *)
(* given capacity, no baseline, last_update 0.0, no cached CPU count.      *)
(***************************************************************************)
NewLoadMonitor(capacity) ==
    /\ samples = <<>>
    /\ max_samples = capacity
    /\ baseline = None
    /\ last_update = 0
    /\ cpu_count_cache = None
    /\ cpu_count_cache_time = 0
    /\ observed = <<>>
    /\ computed_at = None
    /\ calculated = None

(***************************************************************************)
(* Initial states: a new StateManager, nothing cached, at time 0.          *)
(***************************************************************************)
InitWith(files) ==
    /\ NewLoadMonitor(MaxSamples)
    /\ now = 0
    /\ self_state = None
    /\ fs = files
    /\ ret = Idle("init")
    /\ last_saved = None
    /\ last_transition = "none"
    /\ faults = 0
    /\ NoWriters
    /\ NewServer

Init == InitWith(EmptyDisk)

(***************************************************************************)
(* Spec: update_state, load_state and get_state_summary calls, restarts    *)
(* and the clock, on a file system whose operations succeed.               *)
(***************************************************************************)
Next ==
    \/ Advance
    \/ Restart
    \/ LoadState(NoFault)
    \/ GetStateSummary(NoFault)
    \/ \E is_enabled \in BOOLEAN, load \in Loads, threshold \in Thresholds, reason \in Reasons :
          UpdateState(is_enabled, load, threshold, reason, NoFault, NoFault)

Spec == Init /\ [][Next]_vars

(***************************************************************************)
(* SpecTick: the controller driven by ticks only, with restarts.           *)
(***************************************************************************)
NextTick ==
    \/ Advance
    \/ Restart
    \/ \E load \in Loads, actuated \in BOOLEAN : Tick(load, actuated)

SpecTick == Init /\ [][NextTick]_vars

(***************************************************************************)
(* What a new StateManager may find at the state path: no file, the        *)
(* record of an earlier run, or content that is not a record: an empty or  *)
(* truncated file, JSON that is not an object, an object without           *)
(* is_enabled, an object with an unknown field.                            *)
(***************************************************************************)
EarlierRecord == UAMState(TRUE, 0, 3, AbsoluteUpper, "load high", Some(0), None)

EarlierText == json_dump(to_dict(EarlierRecord))

InvalidTexts ==
    { <<>>,
      SubSeq(EarlierText, 1, 4),
      <<LBracket, RBracket>>,
      <<LBrace>> \o SubSeq(EarlierText, 3, Len(EarlierText)),
      SubSeq(EarlierText, 1, Len(EarlierText) - 1)
          \o <<Member("version", Literal("number", 1, "")), RBrace>> }

FoundFiles == {NoFile, File(EarlierText)} \cup {File(text) : text \in InvalidTexts}

InitFault == \E found \in FoundFiles : InitWith([EmptyDisk EXCEPT ![state_file] = found])

(***************************************************************************)
(* The update_state calls of the controller: switching on under high load  *)
(* and off under low load.                                                 *)
(***************************************************************************)
Calls ==
    { [is_enabled |-> TRUE, load_average |-> 3, threshold_used |-> AbsoluteUpper,
       reason |-> "load high"],
      [is_enabled |-> FALSE, load_average |-> 0, threshold_used |-> AbsoluteLower,
       reason |-> "load normal"] }

KilledLengths == PartialLengths \cup {Len(FieldNames) + 2}

(***************************************************************************)
(* SpecFault: the same calls on a file system whose operations may fail,   *)
(* with a process that may be killed while it saves.                       *)
(***************************************************************************)
NextFault ==
    \/ AdvanceTo(MaxFaultTime)
    \/ Restart
    \/ \E lf \in (IF self_state = None THEN LoadFaults ELSE {NoFault}) : LoadState(lf)
    \/ GetStateSummary(NoFault)
    \/ \E call \in Calls, lf \in (IF self_state = None THEN LoadFaults ELSE {NoFault}),
          sf \in SaveFaults :
          UpdateState(call.is_enabled, call.load_average, call.threshold_used, call.reason, lf, sf)
    \/ \E call \in Calls, k \in KilledLengths, renamed \in BOOLEAN :
          UpdateStateKilled(call.is_enabled, call.load_average, call.threshold_used,
                            call.reason, k, renamed)

SpecFault == InitFault /\ [][NextFault]_vars

(***************************************************************************)
(* SpecRoundTrip: save_state called with any UAMState of a bounded set,    *)
(* load_state and restarts, on a file system whose operations succeed.     *)
(***************************************************************************)
OptionalTimes == {None, Some(0), Some(MaxTime)}

ControlStates ==
    { UAMState(e, c, l, h, r, a, d) :
        e \in BOOLEAN, c \in {0, MaxTime}, l \in {0, 3}, h \in Thresholds,
        r \in Reasons, a \in OptionalTimes, d \in OptionalTimes }

NextRoundTrip ==
    \/ Restart
    \/ LoadState(NoFault)
    \/ \E state \in ControlStates : SaveState(state, NoFault)

SpecRoundTrip == Init /\ [][NextRoundTrip]_vars

(***************************************************************************)
(* save_state step by step, for processes that each have their own         *)
(* StateManager on the same state path.  A process holds the state it is   *)
(* saving and the file its open descriptor refers to: a descriptor         *)
(* follows its file through a rename, and refers to no path any more       *)
(* (Unlinked) once another file has been moved over it.                    *)
(*   BeginSave      self._state = state; mkdir(parents, exist_ok)          *)
(*   OpenTemp       open(temp_path, "w"): created or truncated             *)
(*   DumpAndClose   json.dump into the buffer, written out at the end of   *)
(*                  the with block from offset 0 of the open file          *)
(*   Replace        temp_path.replace(state_path); FileNotFoundError when  *)
(*                  the temporary file is gone, which is an OSError:       *)
(*                  nothing to clean up, logged and swallowed              *)
(***************************************************************************)
Unlinked == Path("", "")

overwrite(old, text) == text \o SubSeq(old, Len(text) + 1, Len(old))

Step(p, name) == [op |-> name, exc |-> "", value |-> writers[p].state, source |-> p]

BeginSave(p, state) ==
    /\ writers[p].pc = "idle"
    /\ writers' = [writers EXCEPT ![p] = Writer("open", Some(state), None)]
    /\ overlapped' = (overlapped \/ \E q \in Processes \ {p} : writers[q].pc # "idle")
    /\ ret' = [op |-> "begin save_state", exc |-> "", value |-> Some(state), source |-> p]
    /\ UNCHANGED <<now, manager_vars, monitor_vars, server>>

OpenTemp(p) ==
    /\ writers[p].pc = "open"
    /\ fs' = [fs EXCEPT ![temp_path] = File(<<>>)]
    /\ writers' = [writers EXCEPT ![p].pc = "dump", ![p].fd = Some(temp_path)]
    /\ ret' = Step(p, "open")
    /\ UNCHANGED <<now, self_state, last_saved, last_transition, faults,
                   monitor_vars, overlapped, server>>

DumpAndClose(p) ==
    LET text == json_dump(to_dict(writers[p].state[1]))
        path == writers[p].fd[1]
    IN  /\ writers[p].pc = "dump"
        /\ fs' = IF path = Unlinked THEN fs
                 ELSE [fs EXCEPT ![path] = File(overwrite(fs[path].text, text))]
        /\ writers' = [writers EXCEPT ![p].pc = "replace", ![p].fd = None]
        /\ ret' = Step(p, "dump")
        /\ UNCHANGED <<now, self_state, last_saved, last_transition, faults,
                       monitor_vars, overlapped, server>>

moved(fd) ==
    IF fd = Some(temp_path) THEN Some(state_file)
    ELSE IF fd = Some(state_file) THEN Some(Unlinked)
    ELSE fd

Replace(p) ==
    /\ writers[p].pc = "replace"
    /\ IF fs[temp_path].exists
       THEN /\ fs' = rename(fs, temp_path, state_file)
            /\ writers' = [q \in Processes |->
                              IF q = p THEN Writer("idle", None, None)
                              ELSE IF temp_path = state_file THEN writers[q]
                              ELSE [writers[q] EXCEPT !.fd = moved(writers[q].fd)]]
            /\ ret' = Step(p, "save_state")
       ELSE /\ fs' = fs
            /\ writers' = [writers EXCEPT ![p] = Writer("idle", None, None)]
            /\ ret' = [Step(p, "save_state") EXCEPT !.source = "replace"]
    /\ UNCHANGED <<now, self_state, last_saved, last_transition, faults,
                   monitor_vars, overlapped, server>>

(***************************************************************************)
(* SpecConcurrent: the periodic tick and a manual override, two processes, *)
(* each saving states of its own through save_state, their steps           *)
(* interleaved in any order.                                               *)
(***************************************************************************)
WriterStates(p) ==
    IF p = "tick"
    THEN {UAMState(TRUE, 0, 3, AbsoluteUpper, "load high", Some(0), None),
          UAMState(FALSE, 0, 0, AbsoluteLower, "load normal", Some(0), Some(0))}
    ELSE {UAMState(TRUE, 0, 0, 0, "Manual enable", Some(0), None),
          UAMState(FALSE, 0, 0, 0, "Manual disable", None, Some(0))}

NextConcurrent ==
    \/ \E p \in Processes : \E state \in WriterStates(p) : BeginSave(p, state)
    \/ \E p \in Processes : OpenTemp(p)
    \/ \E p \in Processes : DumpAndClose(p)
    \/ \E p \in Processes : Replace(p)

SpecConcurrent == Init /\ [][NextConcurrent]_vars

(***************************************************************************)
(* Load monitoring (src/autouam/core/monitor.py).  A float is kept as the  *)
(* exact fraction [num, den] in lowest terms with den > 0, so that equal   *)
(* values are equal records; timestamps stay whole seconds.                *)
(***************************************************************************)
RECURSIVE gcd(_, _)
gcd(a, b) == IF b = 0 THEN a ELSE gcd(b, a % b)

Abs(x) == IF x < 0 THEN -x ELSE x

Min(a, b) == IF a <= b THEN a ELSE b

Float(num, den) ==
    LET g == gcd(Abs(num), den)
    IN  [num |-> num \div g, den |-> den \div g]

float_add(a, b) == Float(a.num * b.den + b.num * a.den, a.den * b.den)

float_mul(a, k) == Float(a.num * k, a.den)

float_div(a, k) == Float(a.num, a.den * k)

float_lt(a, b) == a.num * b.den < b.num * a.den

(***************************************************************************)
(* sorted(data), statistics.mean(data) and statistics.quantiles(data, n)   *)
(* with its default method 'exclusive': n - 1 cut points, the i-th         *)
(* interpolated between two neighbours of the sorted data.  quantiles      *)
(* raises StatisticsError for n < 1 or fewer than two data points.         *)
(***************************************************************************)
RECURSIVE insort(_, _)
insort(x, data) ==
    IF data = <<>> THEN <<x>>
    ELSE IF float_lt(x, Head(data)) THEN <<x>> \o data
    ELSE <<Head(data)>> \o insort(x, Tail(data))

RECURSIVE sorted(_)
sorted(data) == IF data = <<>> THEN <<>> ELSE insort(Head(data), sorted(Tail(data)))

RECURSIVE fsum(_)
fsum(data) == IF data = <<>> THEN Float(0, 1) ELSE float_add(Head(data), fsum(Tail(data)))

mean(data) == float_div(fsum(data), Len(data))

quantiles_exc(data, n) == IF n < 1 \/ Len(data) < 2 THEN "StatisticsError" ELSE ""

quantiles(data, n) ==
    LET d == sorted(data)
        ld == Len(d)
        m == ld + 1
        cut(i) ==
            LET j0 == (i * m) \div n
                j == IF j0 < 1 THEN 1 ELSE IF j0 > ld - 1 THEN ld - 1 ELSE j0
                delta == i * m - j * n
            IN  float_div(float_add(float_mul(d[j], n - delta), float_mul(d[j + 1], delta)), n)
    IN  [i \in 1..(n - 1) |-> cut(i)]

(***************************************************************************)
(* Variant of add_sample: a window that evicts nothing.                    *)
(***************************************************************************)
add_sample_unbounded(window, capacity, normalized_load, timestamp) ==
    Append(window, <<normalized_load, timestamp>>)

(***************************************************************************)
(* LoadBaseline.add_sample: append to a deque with maxlen = capacity,      *)
(* which drops its oldest entry when full.                                 *)
(***************************************************************************)
add_sample(window, capacity, normalized_load, timestamp) ==
    LET appended == Append(window, <<normalized_load, timestamp>>)
    IN  IF Len(appended) > capacity THEN Tail(appended) ELSE appended

(***************************************************************************)
(* Variant of recent_samples: the cutoff itself is outside the window.     *)
(***************************************************************************)
recent_samples_strict(window, cutoff_time) ==
    LET kept == SelectSeq(window, LAMBDA s : s[2] > cutoff_time)
    IN  [i \in 1..Len(kept) |-> kept[i][1]]

(***************************************************************************)
(* The loads of the samples taken at or after the cutoff, in window order. *)
(***************************************************************************)
recent_samples(window, cutoff_time) ==
    LET kept == SelectSeq(window, LAMBDA s : s[2] >= cutoff_time)
    IN  [i \in 1..Len(kept) |-> kept[i][1]]

(***************************************************************************)
(* The baseline of two or more loads: the cut point quantile_index         *)
(* (counted from 0) of n_quantiles groups; StatisticsError and the         *)
(* IndexError of a missing cut point are caught and give the mean.         *)
(***************************************************************************)
n_quantiles(recent) == Min(20, Len(recent))

quantile_index(recent) == Min(18, n_quantiles(recent) - 1)

quantile_exc(recent) ==
    IF quantiles_exc(recent, n_quantiles(recent)) # ""
    THEN quantiles_exc(recent, n_quantiles(recent))
    ELSE IF quantile_index(recent) + 1 > Len(quantiles(recent, n_quantiles(recent)))
    THEN "IndexError"
    ELSE ""

percentile_or_mean(recent) ==
    IF Catches({"ValueError", "IndexError"}, quantile_exc(recent))
    THEN mean(recent)
    ELSE quantiles(recent, n_quantiles(recent))[quantile_index(recent) + 1]

(***************************************************************************)
(* Variant of calculate_baseline that stamps last_update on a call that    *)
(* produces no baseline as well.                                           *)
(***************************************************************************)
calculate_baseline_stamping(window, old_baseline, old_last_update, t, hours) ==
    LET recent == recent_samples(window, t - hours * 3600)
    IN  IF Len(recent) < 2
        THEN [value |-> None, baseline |-> old_baseline, last_update |-> t]
        ELSE [value |-> Some(percentile_or_mean(recent)),
              baseline |-> Some(percentile_or_mean(recent)),
              last_update |-> t]

(***************************************************************************)
(* Variant of calculate_baseline: a calculation without enough samples     *)
(* forgets the baseline and still stamps last_update.                      *)
(***************************************************************************)
calculate_baseline_resetting(window, old_baseline, old_last_update, t, hours) ==
    LET recent == recent_samples(window, t - hours * 3600)
    IN  IF Len(recent) < 2
        THEN [value |-> None, baseline |-> None, last_update |-> t]
        ELSE [value |-> Some(percentile_or_mean(recent)),
              baseline |-> Some(percentile_or_mean(recent)),
              last_update |-> t]

(***************************************************************************)
(* Variant of calculate_baseline: the new value is added to the baseline   *)
(* the call finds.                                                         *)
(***************************************************************************)
calculate_baseline_accumulating(window, old_baseline, old_last_update, t, hours) ==
    LET recent == recent_samples(window, t - hours * 3600)
        added == IF old_baseline = None
                 THEN percentile_or_mean(recent)
                 ELSE float_add(old_baseline[1], percentile_or_mean(recent))
    IN  IF Len(recent) < 2
        THEN [value |-> None, baseline |-> old_baseline, last_update |-> old_last_update]
        ELSE [value |-> Some(added), baseline |-> Some(added), last_update |-> t]

(***************************************************************************)
(* LoadBaseline.calculate_baseline at time t: the value returned and the   *)
(* baseline and last_update it leaves.                                     *)
(***************************************************************************)
calculate_baseline(window, old_baseline, old_last_update, t, hours) ==
    LET kept == [value |-> None, baseline |-> old_baseline, last_update |-> old_last_update]
        recent == recent_samples(window, t - hours * 3600)
    IN  IF window = <<>> THEN kept
        ELSE IF recent = <<>> THEN kept
        ELSE IF Len(recent) < 2 THEN kept
        ELSE [value |-> Some(percentile_or_mean(recent)),
              baseline |-> Some(percentile_or_mean(recent)),
              last_update |-> t]

(***************************************************************************)
(* Variant of should_update_baseline whose comparison is strict.           *)
(***************************************************************************)
should_update_baseline_strict(old_last_update, t, interval_seconds) ==
    t - old_last_update > interval_seconds

(***************************************************************************)
(* LoadBaseline.should_update_baseline at time t.                          *)
(***************************************************************************)
should_update_baseline(old_last_update, t, interval_seconds) ==
    t - old_last_update >= interval_seconds

(***************************************************************************)
(* The outcome of the last LoadMonitor or LoadBaseline call: the method,   *)
(* the exception that left it, the value returned and the arguments.       *)
(***************************************************************************)
MonitorRet(op, exc, value, args) ==
    [op |-> op, exc |-> exc, value |-> value, source |-> "", args |-> args]

(***************************************************************************)
(* time.time() moves on by step seconds between calls.                     *)
(***************************************************************************)
Elapse(step, limit) ==
    /\ now + step <= limit
    /\ now' = now + step
    /\ ret' = Idle("time")
    /\ UNCHANGED <<manager_vars, monitor_vars, writer_vars, server>>

(***************************************************************************)
(* The calls on a LoadBaseline.  add_sample is followed until one more     *)
(* sample has been observed than the window holds.                         *)
(***************************************************************************)
AddSample(normalized_load, timestamp) ==
    /\ Len(observed) <= max_samples
    /\ samples' = add_sample(samples, max_samples, normalized_load, timestamp)
    /\ observed' = Append(observed, <<normalized_load, timestamp>>)
    /\ calculated' = None
    /\ ret' = MonitorRet("add_sample", "", None, <<normalized_load, timestamp>>)
    /\ UNCHANGED <<now, manager_vars, writer_vars, server, max_samples, baseline, last_update,
                   cpu_count_cache, cpu_count_cache_time, computed_at>>

CalculateBaseline(hours) ==
    LET r == calculate_baseline(samples, baseline, last_update, now, hours)
    IN  /\ baseline' = r.baseline
        /\ last_update' = r.last_update
        /\ computed_at' = IF r.value # None THEN Some(now) ELSE computed_at
        /\ calculated' = Some([value |-> r.value,
                               hours |-> hours,
                               recent |-> recent_samples(samples, now - hours * 3600),
                               since |-> IF calculated = None THEN now
                                         ELSE calculated[1].since,
                               calls |-> IF calculated = None THEN 1 ELSE 2])
        /\ ret' = MonitorRet("calculate_baseline", "", r.value, <<hours>>)
        /\ UNCHANGED <<now, manager_vars, writer_vars, server, samples, max_samples,
                       cpu_count_cache, cpu_count_cache_time, observed>>

ShouldUpdateBaseline(interval_seconds) ==
    /\ ret' = MonitorRet("should_update_baseline", "",
                         Some(should_update_baseline(last_update, now, interval_seconds)),
                         <<interval_seconds>>)
    /\ UNCHANGED <<now, manager_vars, monitor_vars, writer_vars, server>>

(***************************************************************************)
(* SpecBaseline: add_sample, calculate_baseline and should_update_baseline *)
(* calls on a LoadBaseline of capacity MaxSamples while the clock moves in *)
(* steps of an hour.  The process starts long after the epoch, the 0.0     *)
(* that last_update holds at first.                                        *)
(***************************************************************************)
StartTime == (MaxHours + 1) * 3600

EndTime == StartTime + MaxHours * 3600

SampleLoads == {Float(1, 2), Float(3, 1)}

Hours == 0..MaxHours

Intervals == {0, 3600, StartTime}

InitAt(t, capacity) ==
    /\ now = t
    /\ self_state = None
    /\ fs = EmptyDisk
    /\ ret = Idle("init")
    /\ last_saved = None
    /\ last_transition = "none"
    /\ faults = 0
    /\ NoWriters
    /\ NewServer
    /\ NewLoadMonitor(capacity)

InitBaseline == InitAt(StartTime, MaxSamples)

NextBaseline ==
    \/ Elapse(3600, EndTime)
    \/ \E normalized_load \in SampleLoads : AddSample(normalized_load, now)
    \/ \E hours \in Hours : CalculateBaseline(hours)
    \/ \E interval_seconds \in Intervals : ShouldUpdateBaseline(interval_seconds)

SpecBaseline == InitBaseline /\ [][NextBaseline]_vars

(***************************************************************************)
(* LoadAverage and its average property, the 5-minute value.               *)
(***************************************************************************)
LoadAverage(one_minute, five_minute, fifteen_minute, running_processes, total_processes, last_pid, timestamp) ==
    [one_minute |-> one_minute, five_minute |-> five_minute,
     fifteen_minute |-> fifteen_minute, running_processes |-> running_processes,
     total_processes |-> total_processes, last_pid |-> last_pid, timestamp |-> timestamp]

(***************************************************************************)
(* Variant of average: the 1-minute value.                                 *)
(***************************************************************************)
average_one_minute(load_avg) == load_avg.one_minute

average(load_avg) == load_avg.five_minute

(***************************************************************************)
(* What the operating system answers during one call: os.getloadavg() as   *)
(* None when it raises OSError and the three averages otherwise,           *)
(* os.cpu_count(), the counts read from /proc/cpuinfo and /proc/stat, None *)
(* when the file cannot be opened, and /proc/loadavg: the exception that   *)
(* opening it raises, or its whitespace-separated parts, each part the     *)
(* sequence of its pieces between slashes, a piece <<n>> when int() reads  *)
(* it as n and None when int() raises ValueError.                          *)
(***************************************************************************)
ProcLoadavg(exc, parts) == [exc |-> exc, parts |-> parts]

NoProcLoadavg == ProcLoadavg("FileNotFoundError", <<>>)

Os(getloadavg, cpu_count, cpuinfo, stat, proc_loadavg) ==
    [getloadavg |-> getloadavg, cpu_count |-> cpu_count, cpuinfo |-> cpuinfo, stat |-> stat,
     proc_loadavg |-> proc_loadavg]

(***************************************************************************)
(* The process counts and last pid get_load_average reads from             *)
(* /proc/loadavg, each 0 until it is assigned, and the exception that      *)
(* ends the reading.                                                       *)
(***************************************************************************)
Metadata(exc, running_processes, total_processes, last_pid) ==
    [exc |-> exc, running_processes |-> running_processes,
     total_processes |-> total_processes, last_pid |-> last_pid]

read_process_counts(process_parts) ==
    IF Len(process_parts) # 2 THEN Metadata("", 0, 0, 0)
    ELSE IF process_parts[1] = None THEN Metadata("ValueError", 0, 0, 0)
    ELSE IF process_parts[2] = None THEN Metadata("ValueError", process_parts[1][1], 0, 0)
    ELSE Metadata("", process_parts[1][1], process_parts[2][1], 0)

read_proc_loadavg(proc_loadavg) ==
    LET parts == proc_loadavg.parts
        counts == read_process_counts(parts[4])
    IN  IF proc_loadavg.exc # "" THEN Metadata(proc_loadavg.exc, 0, 0, 0)
        ELSE IF Len(parts) < 5 THEN Metadata("", 0, 0, 0)
        ELSE IF counts.exc # "" THEN counts
        ELSE IF Len(parts[5]) # 1 \/ parts[5][1] = None
        THEN [counts EXCEPT !.exc = "ValueError"]
        ELSE [counts EXCEPT !.last_pid = parts[5][1][1]]

(***************************************************************************)
(* Variant of ProcLoadavgErrors: only the errors of opening the file.      *)
(***************************************************************************)
ProcLoadavgErrors_io == {"IOError", "OSError"}

ProcLoadavgErrors == {"IOError", "OSError", "ValueError", "IndexError"}

(***************************************************************************)
(* LoadMonitor.get_load_average at time t.                                 *)
(***************************************************************************)
get_load_average(t, os) ==
    LET metadata == read_proc_loadavg(os.proc_loadavg)
    IN  IF os.getloadavg = None
        THEN [exc |-> "OSError", value |-> None]
        ELSE IF metadata.exc # "" /\ ~Catches(ProcLoadavgErrors, metadata.exc)
        THEN [exc |-> metadata.exc, value |-> None]
        ELSE [exc |-> "",
              value |-> Some(LoadAverage(os.getloadavg[1][1], os.getloadavg[1][2],
                                         os.getloadavg[1][3], metadata.running_processes,
                                         metadata.total_processes, metadata.last_pid, t))]

(***************************************************************************)
(* LoadMonitor.get_cpu_count at time t: the cached count while it is       *)
(* younger than the ttl, else os.cpu_count(), else the processor entries   *)
(* of /proc/cpuinfo, else the cpuN lines of /proc/stat, else 1; the count  *)
(* found is cached.                                                        *)
(***************************************************************************)
counted_cpus(os) ==
    IF os.cpu_count # None THEN os.cpu_count
    ELSE IF os.cpuinfo = None THEN None
    ELSE IF os.cpuinfo # Some(0) THEN os.cpuinfo
    ELSE IF os.stat = None THEN Some(0)
    ELSE os.stat

(***************************************************************************)
(* Variant of final_cpu_count without the check for a count of 0.          *)
(***************************************************************************)
final_cpu_count_unchecked(counted) == IF counted = None THEN 1 ELSE counted[1]

final_cpu_count(counted) == IF counted = None \/ counted = Some(0) THEN 1 ELSE counted[1]

(***************************************************************************)
(* Variant of cache_valid: a cached count exactly ttl seconds old is       *)
(* still used.                                                             *)
(***************************************************************************)
cache_valid_inclusive(cache, cache_time, t) ==
    cache # None /\ t - cache_time <= cpu_count_cache_ttl

cache_valid(cache, cache_time, t) ==
    cache # None /\ t - cache_time < cpu_count_cache_ttl

get_cpu_count(cache, cache_time, t, os) ==
    IF cache_valid(cache, cache_time, t)
    THEN [value |-> cache[1], cache |-> cache, cache_time |-> cache_time, queried |-> FALSE]
    ELSE [value |-> final_cpu_count(counted_cpus(os)),
          cache |-> Some(final_cpu_count(counted_cpus(os))),
          cache_time |-> t, queried |-> TRUE]

(***************************************************************************)
(* Variant of get_normalized_load: a failed reading counts as zero load.   *)
(***************************************************************************)
get_normalized_load_defaulting(window, capacity, cache, cache_time, t, os) ==
    LET load_avg == get_load_average(t, os)
        cpu_count == get_cpu_count(cache, cache_time, t, os)
        normalized == IF load_avg.exc # "" THEN Float(0, 1)
                      ELSE float_div(average(load_avg.value[1]), cpu_count.value)
    IN  [exc |-> "", value |-> Some(normalized),
         samples |-> add_sample(window, capacity, normalized, t),
         cache |-> cpu_count.cache, cache_time |-> cpu_count.cache_time]

(***************************************************************************)
(* LoadMonitor.get_normalized_load at time t: the exception that leaves    *)
(* it, the value returned, and the window and CPU cache it leaves.         *)
(***************************************************************************)
get_normalized_load(window, capacity, cache, cache_time, t, os) ==
    LET load_avg == get_load_average(t, os)
        cpu_count == get_cpu_count(cache, cache_time, t, os)
        normalized == float_div(average(load_avg.value[1]), cpu_count.value)
    IN  IF load_avg.exc # ""
        THEN [exc |-> load_avg.exc, value |-> None, samples |-> window,
              cache |-> cache, cache_time |-> cache_time]
        ELSE [exc |-> "", value |-> Some(normalized),
              samples |-> add_sample(window, capacity, normalized,
                                     load_avg.value[1].timestamp),
              cache |-> cpu_count.cache, cache_time |-> cpu_count.cache_time]

(***************************************************************************)
(* The comparison of is_high_load and is_low_load: against the baseline    *)
(* times the multiplier when relative thresholds are on and a baseline     *)
(* exists, against the absolute threshold otherwise.                       *)
(***************************************************************************)
float_times(a, b) == Float(a.num * b.num, a.den * b.den)

(***************************************************************************)
(* Variant of threshold_to_use: a baseline is used whenever it exists.     *)
(***************************************************************************)
threshold_to_use_any_baseline(current_baseline, threshold, use_relative, relative_multiplier) ==
    IF current_baseline # None
    THEN float_times(current_baseline[1], relative_multiplier)
    ELSE threshold

threshold_to_use(current_baseline, threshold, use_relative, relative_multiplier) ==
    IF use_relative /\ current_baseline # None
    THEN float_times(current_baseline[1], relative_multiplier)
    ELSE threshold

(***************************************************************************)
(* The verdicts of is_high_load and is_low_load on a normalized load and   *)
(* the threshold compared against.                                         *)
(***************************************************************************)
(* Variant of is_high_load: a load equal to the threshold counts as high. *)
is_high_load_inclusive(normalized_load, compared) == ~float_lt(normalized_load, compared)

is_high_load(normalized_load, compared) == float_lt(compared, normalized_load)

is_low_load(normalized_load, compared) == float_lt(normalized_load, compared)

(***************************************************************************)
(* The calls on a LoadMonitor.  A call that adds a sample is recorded in   *)
(* observed.                                                               *)
(***************************************************************************)
Sampled(r) ==
    /\ samples' = r.samples
    /\ cpu_count_cache' = r.cache
    /\ cpu_count_cache_time' = r.cache_time
    /\ observed' = IF r.exc = ""
                   THEN Append(observed, <<r.value[1], now>>)
                   ELSE observed
    /\ calculated' = IF r.exc = "" THEN None ELSE calculated
    /\ UNCHANGED <<now, manager_vars, writer_vars, server, max_samples, baseline, last_update, computed_at>>

GetNormalizedLoad(os) ==
    LET r == get_normalized_load(samples, max_samples, cpu_count_cache,
                                 cpu_count_cache_time, now, os)
    IN  /\ Len(observed) <= max_samples
        /\ Sampled(r)
        /\ ret' = MonitorRet("get_normalized_load", r.exc, r.value, <<os>>)

IsHighLoad(threshold, use_relative, relative_multiplier, os) ==
    LET r == get_normalized_load(samples, max_samples, cpu_count_cache,
                                 cpu_count_cache_time, now, os)
        compared == threshold_to_use(baseline, threshold, use_relative, relative_multiplier)
    IN  /\ Len(observed) <= max_samples
        /\ Sampled(r)
        /\ ret' = MonitorRet("is_high_load", r.exc,
                             IF r.exc = "" THEN Some(is_high_load(r.value[1], compared)) ELSE None,
                             <<os, threshold, use_relative, relative_multiplier,
                               compared>>)

IsLowLoad(threshold, use_relative, relative_multiplier, os) ==
    LET r == get_normalized_load(samples, max_samples, cpu_count_cache,
                                 cpu_count_cache_time, now, os)
        compared == threshold_to_use(baseline, threshold, use_relative, relative_multiplier)
    IN  /\ Len(observed) <= max_samples
        /\ Sampled(r)
        /\ ret' = MonitorRet("is_low_load", r.exc,
                             IF r.exc = "" THEN Some(is_low_load(r.value[1], compared)) ELSE None,
                             <<os, threshold, use_relative, relative_multiplier,
                               compared>>)

(***************************************************************************)
(* LoadMonitor.get_load_average called by itself.                          *)
(***************************************************************************)
GetLoadAverage(os) ==
    LET r == get_load_average(now, os)
    IN  /\ ret' = MonitorRet("get_load_average", r.exc, r.value, <<os>>)
        /\ UNCHANGED <<now, manager_vars, monitor_vars, writer_vars, server>>

(***************************************************************************)
(* LoadMonitor.get_system_info at time t: the whole body runs under        *)
(* `except Exception`, which turns any error into the dictionary           *)
(* {"error", "timestamp"} that is returned.                                *)
(***************************************************************************)
float_ratio(a, b) == IF b.num > 0 THEN Float(a.num * b.den, a.den * b.num) ELSE Float(0, 1)

get_system_info(window, current_baseline, baseline_last_update, cache, cache_time, t, os) ==
    LET load_avg == get_load_average(t, os)
        cpu_count == get_cpu_count(cache, cache_time, t, os)
        normalized_load == float_div(average(load_avg.value[1]), cpu_count.value)
    IN  IF load_avg.exc # ""
        THEN [exc |-> "",
              value |-> Some([error |-> load_avg.exc, timestamp |-> t]),
              cache |-> cache, cache_time |-> cache_time]
        ELSE [exc |-> "",
              value |-> Some(
                  [load_average |-> [one_minute |-> load_avg.value[1].one_minute,
                                     five_minute |-> load_avg.value[1].five_minute,
                                     fifteen_minute |-> load_avg.value[1].fifteen_minute,
                                     normalized |-> normalized_load],
                   processes |-> [running |-> load_avg.value[1].running_processes,
                                  total |-> load_avg.value[1].total_processes],
                   cpu_count |-> cpu_count.value,
                   timestamp |-> load_avg.value[1].timestamp,
                   baseline |-> IF current_baseline = None THEN None
                                ELSE Some([value |-> current_baseline[1],
                                           ratio_to_baseline |->
                                               float_ratio(normalized_load, current_baseline[1]),
                                           last_update |-> baseline_last_update,
                                           samples_count |-> Len(window)])]),
              cache |-> cpu_count.cache, cache_time |-> cpu_count.cache_time]

GetSystemInfo(os) ==
    LET r == get_system_info(samples, baseline, last_update, cpu_count_cache,
                             cpu_count_cache_time, now, os)
    IN  /\ cpu_count_cache' = r.cache
        /\ cpu_count_cache_time' = r.cache_time
        /\ ret' = MonitorRet("get_system_info", r.exc, r.value, <<os>>)
        /\ UNCHANGED <<now, manager_vars, writer_vars, server, samples, max_samples, baseline, last_update,
                       observed, computed_at, calculated>>

(***************************************************************************)
(* LoadMonitor.get_cpu_count called by itself; the arguments recorded are  *)
(* the answers of the operating system and whether it was asked.           *)
(***************************************************************************)
GetCpuCount(os) ==
    LET r == get_cpu_count(cpu_count_cache, cpu_count_cache_time, now, os)
    IN  /\ cpu_count_cache' = r.cache
        /\ cpu_count_cache_time' = r.cache_time
        /\ ret' = MonitorRet("get_cpu_count", "", Some(r.value), <<os, r.queried>>)
        /\ UNCHANGED <<now, manager_vars, writer_vars, server, samples, max_samples, baseline, last_update,
                       observed, computed_at, calculated>>

(***************************************************************************)
(* LoadMonitor.update_baseline: calculate_baseline, its value dropped.     *)
(***************************************************************************)
UpdateBaseline(hours) ==
    LET r == calculate_baseline(samples, baseline, last_update, now, hours)
    IN  /\ baseline' = r.baseline
        /\ last_update' = r.last_update
        /\ computed_at' = IF r.value # None THEN Some(now) ELSE computed_at
        /\ calculated' = Some([value |-> r.value,
                               hours |-> hours,
                               recent |-> recent_samples(samples, now - hours * 3600),
                               since |-> IF calculated = None THEN now
                                         ELSE calculated[1].since,
                               calls |-> IF calculated = None THEN 1 ELSE 2])
        /\ ret' = MonitorRet("update_baseline", "", None, <<hours>>)
        /\ UNCHANGED <<now, manager_vars, writer_vars, server, samples, max_samples,
                       cpu_count_cache, cpu_count_cache_time, observed>>

(***************************************************************************)
(* SpecMonitor: get_normalized_load, is_high_load, is_low_load and         *)
(* update_baseline calls on a LoadMonitor while the clock moves in steps   *)
(* of half the cache ttl, for MaxHours cache lifetimes, and the operating   *)
(* system answers in any of the ways of OsAnswers: getloadavg failing, two *)
(* CPUs counted, or no CPU count found at all.                             *)
(***************************************************************************)
OsAnswers ==
    {Os(None, Some(2), None, None, NoProcLoadavg),
     Os(Some(<<Float(1, 1), Float(4, 1), Float(2, 1)>>), Some(2), None, None, NoProcLoadavg),
     Os(Some(<<Float(8, 1), Float(1, 1), Float(1, 1)>>), Some(2), None, None, NoProcLoadavg),
     Os(Some(<<Float(4, 1), Float(1, 1), Float(2, 1)>>), None, None, None, NoProcLoadavg)}

MonitorCapacity == MaxSamples - 1

MonitorEndTime == StartTime + MaxHours * cpu_count_cache_ttl

InitMonitor == InitAt(StartTime, MonitorCapacity)

NextMonitor ==
    \/ Elapse(cpu_count_cache_ttl \div 2, MonitorEndTime)
    \/ \E os \in OsAnswers : GetNormalizedLoad(os)
    \/ \E os \in OsAnswers, use_relative \in BOOLEAN :
          IsHighLoad(Float(AbsoluteUpper, 1), use_relative, Float(2, 1), os)
    \/ \E os \in OsAnswers, use_relative \in BOOLEAN :
          IsLowLoad(Float(AbsoluteLower, 1), use_relative, Float(3, 2), os)
    \/ UpdateBaseline(1)

SpecMonitor == InitMonitor /\ [][NextMonitor]_vars

(***************************************************************************)
(* SpecBand: the same calls with relative thresholds on and the default    *)
(* multipliers, on a machine of two CPUs that is idle, with load averages  *)
(* of 0.0, or busy.                                                        *)
(***************************************************************************)
BandAnswers ==
    {Os(Some(<<Float(0, 1), Float(0, 1), Float(0, 1)>>), Some(2), None, None, NoProcLoadavg),
     Os(Some(<<Float(1, 1), Float(4, 1), Float(2, 1)>>), Some(2), None, None, NoProcLoadavg)}

NextBand ==
    \/ Elapse(cpu_count_cache_ttl \div 2, MonitorEndTime)
    \/ \E os \in BandAnswers : GetNormalizedLoad(os)
    \/ \E os \in BandAnswers : IsHighLoad(Float(AbsoluteUpper, 1), TRUE, Float(2, 1), os)
    \/ \E os \in BandAnswers : IsLowLoad(Float(AbsoluteLower, 1), TRUE, Float(3, 2), os)
    \/ UpdateBaseline(1)

SpecBand == InitMonitor /\ [][NextBand]_vars

(***************************************************************************)
(* SpecCpuCount: get_cpu_count calls while the clock moves in steps of     *)
(* half the cache ttl; os.cpu_count() answers None, 0 or a count, and each *)
(* of /proc/cpuinfo and /proc/stat cannot be opened, counts 0 or counts    *)
(* some CPUs.                                                              *)
(***************************************************************************)
CpuAnswers ==
    { Os(None, cpu_count, cpuinfo, stat, NoProcLoadavg) :
        cpu_count \in {None, Some(0), Some(2)},
        cpuinfo \in {None, Some(0), Some(3)},
        stat \in {None, Some(0), Some(4)} }

NextCpuCount ==
    \/ Elapse(cpu_count_cache_ttl \div 2, MonitorEndTime)
    \/ \E os \in CpuAnswers : GetCpuCount(os)

SpecCpuCount == InitMonitor /\ [][NextCpuCount]_vars

(***************************************************************************)
(* SpecSample: get_load_average and get_system_info calls while            *)
(* os.getloadavg() fails or                                                *)
(* gives three averages and /proc/loadavg is missing, unreadable, short,   *)
(* malformed in its process counts or its last pid, or well-formed.        *)
(***************************************************************************)
Word == <<None>>

WellFormedParts == <<Word, Word, Word, <<Some(2), Some(150)>>, <<Some(4321)>>>>

ProcLoadavgs ==
    {NoProcLoadavg,
     ProcLoadavg("PermissionError", <<>>),
     ProcLoadavg("", <<>>),
     ProcLoadavg("", <<Word, Word, Word, <<Some(2), Some(150)>>>>),
     ProcLoadavg("", <<Word, Word, Word, <<Some(2)>>, <<Some(4321)>>>>),
     ProcLoadavg("", <<Word, Word, Word, <<Some(2), Some(150), Some(7)>>, <<Some(4321)>>>>),
     ProcLoadavg("", <<Word, Word, Word, <<Some(2), Some(150)>>, <<Some(4321)>>, Word>>),
     ProcLoadavg("", <<Word, Word, Word, <<None, Some(150)>>, <<Some(4321)>>>>),
     ProcLoadavg("", <<Word, Word, Word, <<Some(2), None>>, <<Some(4321)>>>>),
     ProcLoadavg("", <<Word, Word, Word, <<Some(2), Some(150)>>, <<None>>>>),
     ProcLoadavg("", <<Word, Word, Word, <<Some(2), Some(150)>>, <<Some(4), Some(3)>>>>),
     ProcLoadavg("", WellFormedParts)}

SampleAnswers ==
    { Os(getloadavg, Some(2), None, None, proc_loadavg) :
        getloadavg \in {None,
                        Some(<<Float(1, 1), Float(4, 1), Float(2, 1)>>),
                        Some(<<Float(123, 100), Float(456, 100), Float(789, 100)>>)},
        proc_loadavg \in ProcLoadavgs }

NextSample ==
    \/ Elapse(cpu_count_cache_ttl \div 2, MonitorEndTime)
    \/ \E os \in SampleAnswers : GetLoadAverage(os)
    \/ \E os \in SampleAnswers : GetSystemInfo(os)

SpecSample == InitMonitor /\ [][NextSample]_vars

(***************************************************************************)
(* SpecQuantile: calculate_baseline on a LoadBaseline of the default       *)
(* capacity that has observed 2 to MaxCount samples, one a minute up to    *)
(* the start time: the first k of them of one load and the others of       *)
(* another, the higher load first or last.                                 *)
(***************************************************************************)
ObservedWindow(count, k, high_first) ==
    [i \in 1..count |->
        <<IF (i <= k) = high_first THEN Float(3, 1) ELSE Float(1, 2),
          StartTime - 60 * (count - i)>>]

ObservedWindows ==
    { ObservedWindow(count, k, high_first) :
        count \in 2..MaxCount, k \in 0..MaxCount, high_first \in BOOLEAN }

InitQuantile ==
    /\ now = StartTime
    /\ self_state = None
    /\ fs = EmptyDisk
    /\ ret = Idle("init")
    /\ last_saved = None
    /\ last_transition = "none"
    /\ faults = 0
    /\ NoWriters
    /\ NewServer
    /\ max_samples = DefaultMaxSamples
    /\ samples \in ObservedWindows
    /\ observed = samples
    /\ baseline = None
    /\ last_update = 0
    /\ cpu_count_cache = None
    /\ cpu_count_cache_time = 0
    /\ computed_at = None
    /\ calculated = None

NextQuantile ==
    \/ \E hours \in Hours : CalculateBaseline(hours)
    \/ \E interval_seconds \in Intervals : ShouldUpdateBaseline(interval_seconds)

SpecQuantile == InitQuantile /\ [][NextQuantile]_vars

(***************************************************************************)
(* MockCloudflareServer.set_security_level for a request with a valid      *)
(* token: 429 with Retry-After once RateLimitAfter writes were accepted,   *)
(* 400 for a level that is not one of valid_levels, else the level is set  *)
(* and the write counted.                                                  *)
(***************************************************************************)
valid_levels == {"essentially_off", "low", "medium", "high", "under_attack"}

Response(status, retry_after, srv) ==
    [status |-> status, retry_after |-> retry_after, server |-> srv]

set_security_level(srv, new_level) ==
    IF srv.rate_limit_counter >= RateLimitAfter THEN Response(429, RetryAfter, srv)
    ELSE IF new_level \notin valid_levels THEN Response(400, 0, srv)
    ELSE Response(200, 0, Server(new_level, srv.rate_limit_counter + 1))

(***************************************************************************)
(* The actuator's SetLevel: no write when the zone is at the target level  *)
(* already; a 429 is retried after the Retry-After of the answer while the *)
(* total wait stays within MaxTotalWait and then surfaced as               *)
(* RateLimitError; a validation failure is not retried.  The result is the *)
(* error ("" for success), the seconds waited, the writes sent and the     *)
(* server they leave.                                                      *)
(***************************************************************************)
Result(error, waited, writes, srv) ==
    [error |-> error, waited |-> waited, writes |-> writes, server |-> srv]

(* Variant of rate_limited: giving up is reported as success. *)
rate_limited_ignored(waited, writes, srv) == Result("", waited, writes, srv)

rate_limited(waited, writes, srv) == Result("RateLimitError", waited, writes, srv)

RECURSIVE set_level_write(_, _, _, _)
set_level_write(srv, target, waited, writes) ==
    LET answer == set_security_level(srv, target)
    IN  IF answer.status = 200 THEN Result("", waited, writes + 1, answer.server)
        ELSE IF answer.status # 429 THEN Result("ValidationError", waited, writes + 1, srv)
        ELSE IF waited + answer.retry_after <= MaxTotalWait
        THEN set_level_write(answer.server, target, waited + answer.retry_after, writes + 1)
        ELSE rate_limited(waited, writes + 1, answer.server)

(* Variant of set_level: the write is sent without looking at the current level. *)
set_level_always_writing(srv, target) == set_level_write(srv, target, 0, 0)

set_level(srv, target) ==
    IF srv.security_level = target THEN Result("", 0, 0, srv)
    ELSE set_level_write(srv, target, 0, 0)

(***************************************************************************)
(* The controller acting through the actuator.  A tick decides, calls      *)
(* SetLevel when it decided to switch, and calls update_state once the     *)
(* call is confirmed; a failed call leaves the state as loaded and the     *)
(* tick reports the error with action "none".  EnableUAM and DisableUAM    *)
(* skip the decision and the minimum duration: test_manual_control         *)
(* disables right after enabling, with a minimum of 60 s, and expects      *)
(* success.  The time is read again after the call.                        *)
(***************************************************************************)
level_for(is_enabled) == IF is_enabled THEN "under_attack" ELSE "essentially_off"

(* Variant of confirmed: the state is updated whatever the call returned. *)
confirmed_always(result) == TRUE

confirmed(result) == result.error = ""

TickResult(action, result) ==
    [action |-> IF result.error = "" THEN action ELSE "none", error |-> result.error,
     waited |-> result.waited, writes |-> result.writes]

MaxWaited == RetryAfter * (MaxTotalWait \div RetryAfter)

ActuateEndTime == 2 * MaxWaited

Act(op, action, is_enabled, load_average, threshold_used, reason, result) ==
    LET loaded == load_state(self_state, fs, now, NoFault)
        t == now + result.waited
        r == update_state(loaded.state, loaded.fs, t, is_enabled, load_average,
                          threshold_used, reason, NoFault, NoFault)
    IN  /\ t <= ActuateEndTime
        /\ now' = t
        /\ server' = result.server
        /\ IF confirmed(result)
           THEN /\ self_state' = r.state
                /\ fs' = r.fs
                /\ last_saved' = r.state
                /\ last_transition' = Transition(loaded.state[1].is_enabled, is_enabled,
                                                 last_transition)
           ELSE /\ self_state' = loaded.state
                /\ fs' = loaded.fs
                /\ UNCHANGED <<last_saved, last_transition>>
        /\ ret' = [op |-> op, exc |-> "", value |-> Some(TickResult(action, result)),
                   source |-> ""]
        /\ UNCHANGED <<faults, monitor_vars, writer_vars>>

CheckAndAct(load) ==
    LET state == load_state(self_state, fs, now, NoFault).state[1]
        decision == Decide(state, load, now)
    IN  CASE decision = "enable" ->
               Act("check_and_act", "enable", TRUE, load, AbsoluteUpper, "load high",
                   set_level(server, level_for(TRUE)))
          [] decision = "disable" ->
               Act("check_and_act", "disable", FALSE, load, AbsoluteLower, "load normal",
                   set_level(server, level_for(FALSE)))
          [] OTHER ->
               Act("check_and_act", "none", state.is_enabled, load,
                   IF state.is_enabled THEN AbsoluteLower ELSE AbsoluteUpper,
                   "no action", Result("", 0, 0, server))

(* Variant of override_allowed: a manual disable waits for the minimum duration. *)
override_allowed_after_minimum(state, is_enabled, t) ==
    is_enabled \/ can_disable_uam(state, t, MinimumDwellSeconds)

override_allowed(state, is_enabled, t) == TRUE

Override(is_enabled) ==
    LET state == load_state(self_state, fs, now, NoFault).state[1]
    IN  Act(IF is_enabled THEN "enable_uam" ELSE "disable_uam",
            IF is_enabled THEN "enable" ELSE "disable",
            is_enabled, 0, 0,
            IF is_enabled THEN "Manual enable" ELSE "Manual disable",
            IF override_allowed(state, is_enabled, now)
            THEN set_level(server, level_for(is_enabled))
            ELSE Result("MinimumDuration", 0, 0, server))

(***************************************************************************)
(* MockCloudflareServer.verify_token and get_security_level: 401 without   *)
(* a Bearer header, 403 for a token that is not one of valid_tokens, else  *)
(* 200, get_security_level with the level of the zone.  The status 0       *)
(* stands for a server that cannot be reached.                             *)
(***************************************************************************)
Header(scheme, token) == [scheme |-> scheme, token |-> token]

valid_tokens == {"test_token"}

authenticate(auth_header) ==
    IF auth_header.scheme # "Bearer" THEN 401
    ELSE IF auth_header.token \notin valid_tokens THEN 403
    ELSE 200

verify_token(auth_header) == authenticate(auth_header)

get_security_level(srv, auth_header) ==
    [status |-> authenticate(auth_header),
     value |-> IF authenticate(auth_header) = 200 THEN Some(srv.security_level) ELSE None]

(***************************************************************************)
(* The controller's Initialize: VerifyCredentials, then GetCurrentLevel;   *)
(* false with a reason, never an exception, when the server cannot be      *)
(* reached or refuses the token.                                           *)
(***************************************************************************)
Initialized(success, reason) == [success |-> success, reason |-> reason]

(* Variant of initialize: reaching the server is enough. *)
initialize_unverified(srv, auth_header, reachable) == Initialized(reachable, "")

initialize(srv, auth_header, reachable) ==
    LET verified == IF reachable THEN verify_token(auth_header) ELSE 0
        level == IF reachable THEN get_security_level(srv, auth_header).status ELSE 0
    IN  IF verified = 0 THEN Initialized(FALSE, "NetworkError")
        ELSE IF verified # 200 THEN Initialized(FALSE, "AuthError")
        ELSE IF level # 200 THEN Initialized(FALSE, "NetworkError")
        ELSE Initialized(TRUE, "")

Initialize(auth_header, reachable) ==
    /\ ret' = MonitorRet("initialize", "", Some(initialize(server, auth_header, reachable)),
                         <<auth_header, reachable>>)
    /\ UNCHANGED <<now, manager_vars, monitor_vars, writer_vars, server>>

Headers == {Header("Bearer", "test_token"), Header("Bearer", "invalid_token"), Header("", "")}

(***************************************************************************)
(* A tick cancelled while its SetLevel call is in flight: the server may   *)
(* or may not have taken the write, nothing was confirmed.                 *)
(***************************************************************************)
CheckAndActCancelled(load, taken) ==
    LET state == load_state(self_state, fs, now, NoFault).state[1]
        decision == Decide(state, load, now)
        answer == set_security_level(server, level_for(decision = "enable"))
    IN  /\ decision # "noop"
        /\ server.security_level # level_for(decision = "enable")
        /\ Act("check_and_act", "none", decision = "enable", load, AbsoluteUpper, "",
               Result("cancelled", 0, 1, IF taken THEN answer.server ELSE server))

(***************************************************************************)
(* Another client of the same zone writes a security level.                *)
(***************************************************************************)
OtherClient(new_level) ==
    /\ server' = set_security_level(server, new_level).server
    /\ ret' = Idle("other client")
    /\ UNCHANGED <<now, manager_vars, monitor_vars, writer_vars>>

(***************************************************************************)
(* SpecActuate: initialization, ticks, manual overrides, cancelled ticks   *)
(* and another client against the mock server, the clock moving by the     *)
(* longest wait.                                                           *)
(***************************************************************************)
ActLoads == {0, 3}

NextActuate ==
    \/ Elapse(MaxWaited, ActuateEndTime)
    \/ \E load \in ActLoads : CheckAndAct(load)
    \/ \E is_enabled \in BOOLEAN : Override(is_enabled)
    \/ \E load \in ActLoads, taken \in BOOLEAN : CheckAndActCancelled(load, taken)
    \/ \E new_level \in {"under_attack", "essentially_off"} : OtherClient(new_level)
    \/ \E auth_header \in Headers, reachable \in BOOLEAN : Initialize(auth_header, reachable)

SpecActuate == Init /\ [][NextActuate]_vars

(***************************************************************************)
(* A state file that records UAM as enabled and has no enabled_at and no   *)
(* disabled_at member: from_dict gives both their default, None.           *)
(***************************************************************************)
LegacyText ==
    LET Required(item) == item.key \in RequiredFields
    IN  json_dump(SelectSeq(to_dict(EarlierRecord), Required))

(***************************************************************************)
(* can_disable_uam as the controller calls it: get_uam_duration loads the  *)
(* state, which caches it.                                                 *)
(***************************************************************************)
CanDisableUam(minimum_duration) ==
    LET loaded == load_state(self_state, fs, now, NoFault)
        can_disable == can_disable_uam(loaded.state[1], now, minimum_duration)
    IN  /\ self_state' = loaded.state
        /\ fs' = loaded.fs
        /\ ret' = [op |-> "can_disable_uam", exc |-> "", value |-> Some(can_disable),
                   source |-> loaded.source, args |-> <<minimum_duration>>]
        /\ UNCHANGED <<now, last_saved, last_transition, faults, monitor_vars, writer_vars, server>>

(***************************************************************************)
(* Variant of clear_state that resets the cached state only.               *)
(***************************************************************************)
clear_state_in_memory(files, t, fault) == Outcome(Some(get_initial_state(t)), files, "", "")

(***************************************************************************)
(* clear_state: the initial state becomes the cached state and is saved.   *)
(***************************************************************************)
clear_state(files, t, fault) == save_state(get_initial_state(t), files, fault)

ClearState ==
    LET r == clear_state(fs, now, NoFault)
    IN  /\ self_state' = r.state
        /\ fs' = r.fs
        /\ ret' = [op |-> "clear_state", exc |-> r.exc, value |-> r.state, source |-> r.source,
                   args |-> <<self_state, fs[state_file]>>]
        /\ last_saved' = r.state
        /\ last_transition' = "none"
        /\ UNCHANGED <<now, faults, monitor_vars, writer_vars, server>>

(***************************************************************************)
(* Another StateManager on the same state file, in another process (the    *)
(* command line next to the daemon), completes a save_state of a record.   *)
(***************************************************************************)
OtherRecords == {EarlierRecord, get_initial_state(0)}

OtherWriter(record) ==
    /\ fs' = save_state(record, fs, NoFault).fs
    /\ ret' = Idle("other writer")
    /\ UNCHANGED <<now, self_state, last_saved, last_transition, faults, monitor_vars, writer_vars, server>>

(***************************************************************************)
(* The minimum durations asked about: none, the configured one, and one    *)
(* longer than the run.                                                    *)
(***************************************************************************)
Durations == {0, MinimumDwellSeconds, MaxTime + 1}

(***************************************************************************)
(* SpecShared: one StateManager on a state file that it may find written   *)
(* without the optional members and that another process also writes.      *)
(***************************************************************************)
InitShared == \E found \in {NoFile, File(LegacyText)} : InitWith([EmptyDisk EXCEPT ![state_file] = found])

NextShared ==
    \/ Advance
    \/ Restart
    \/ LoadState(NoFault)
    \/ GetStateSummary(NoFault)
    \/ \E call \in Calls :
          UpdateState(call.is_enabled, call.load_average, call.threshold_used, call.reason,
                      NoFault, NoFault)
    \/ \E minimum_duration \in Durations : CanDisableUam(minimum_duration)
    \/ \E record \in OtherRecords : OtherWriter(record)
    \/ ClearState

SpecShared == InitShared /\ [][NextShared]_vars

(***************************************************************************)
(* The state a load_state call would return now, without a failing file    *)
(* operation: what the controller sees as its state.                       *)
(***************************************************************************)
Visible == load_state(self_state, fs, now, NoFault).state[1]

StateFileValid == ~fs[state_file].exists \/ load_state_try(fs, NoFault) = ""

FailedWrite(r) ==
    /\ r.op \in {"save_state", "update_state"}
    /\ r.source \in {"mkdir", "open", "write", "replace"}

SameSwitch(a, b) ==
    /\ a.is_enabled = b.is_enabled
    /\ a.enabled_at = b.enabled_at
    /\ a.disabled_at = b.disabled_at

(***************************************************************************)
(* C1 (SpecTick).  Over every sequence of ticks, clock advances and        *)
(* restarts: a step that takes is_enabled from true to false happens only  *)
(* when at least MinimumDwellSeconds have passed since enabled_at,         *)
(* whatever the load is.                                                   *)
(***************************************************************************)
C1_MinimumDwell ==
    [][(Visible.is_enabled /\ ~Visible'.is_enabled)
         => /\ Visible.enabled_at # None
            /\ now' - Visible.enabled_at[1] >= MinimumDwellSeconds]_vars

(* A tick under low load before the dwell has elapsed left UAM enabled. *)
C1_Witness ==
    /\ ret.op = "update_state"
    /\ self_state # None
    /\ self_state[1].is_enabled
    /\ self_state[1].load_average < AbsoluteLower
    /\ self_state[1].last_check = now
    /\ now > self_state[1].enabled_at[1]
    /\ now - self_state[1].enabled_at[1] < MinimumDwellSeconds

(***************************************************************************)
(* C2 as stated (Spec).  enabled_at is present if and only if is_enabled   *)
(* is true.                                                                *)
(***************************************************************************)
C2_EnabledAtIffEnabled ==
    self_state # None => ((self_state[1].enabled_at # None) <=> self_state[1].is_enabled)

(***************************************************************************)
(* C2 as amended (Spec).  enabled_at is present whenever is_enabled is     *)
(* true, and it is present if and only if UAM has been enabled at some     *)
(* point: the first enable sets it and a disable leaves it in place.       *)
(***************************************************************************)
C2_EnabledAtSinceFirstEnable ==
    self_state # None =>
        /\ self_state[1].is_enabled => self_state[1].enabled_at # None
        /\ (self_state[1].enabled_at # None) <=> (last_transition # "none")

(* UAM was enabled and disabled again: enabled_at is still there. *)
C2_Witness ==
    /\ ret.op = "update_state"
    /\ self_state # None
    /\ ~self_state[1].is_enabled
    /\ self_state[1].enabled_at # None
    /\ self_state[1].disabled_at = Some(now)

(***************************************************************************)
(* C3 (Spec).  disabled_at is present if and only if the most recent       *)
(* transition was enabled -> disabled.                                     *)
(***************************************************************************)
C3_DisabledAtIffLastDisable ==
    self_state # None =>
        ((self_state[1].disabled_at # None) <=> (last_transition = "disable"))

(* UAM was just disabled after having been enabled earlier. *)
C3_Witness ==
    /\ ret.op = "update_state"
    /\ self_state # None
    /\ ~self_state[1].is_enabled
    /\ self_state[1].disabled_at = Some(now)
    /\ self_state[1].enabled_at # None
    /\ self_state[1].enabled_at[1] < now
    /\ last_transition = "disable"

(***************************************************************************)
(* C4 (SpecFault).  A process killed inside save_state, while it writes    *)
(* the temporary file or on either side of the rename, leaves a state file *)
(* that was absent or held a complete record either as it was or holding   *)
(* the complete new record.                                                *)
(***************************************************************************)
C4_KilledSaveKeepsRecord ==
    [][(ret'.op = "killed" /\ StateFileValid)
         => \/ fs'[state_file] = fs[state_file]
            \/ fs'[state_file] = File(json_dump(to_dict(ret'.value[1])))]_vars

(* Killed with a partly written temporary file next to the older record. *)
C4_Witness ==
    /\ ret.op = "killed"
    /\ ret.source = "writing"
    /\ fs[temp_path].exists
    /\ json_load(fs[temp_path].text).exc # ""
    /\ fs[state_file].exists
    /\ load_state_try(fs, NoFault) = ""
    /\ fs[state_file] # File(json_dump(to_dict(ret.value[1])))

(***************************************************************************)
(* C5 (SpecRoundTrip).  After save_state(s), load_state returns a state    *)
(* equal to s in all seven fields, in the same StateManager and in a new   *)
(* one on the same path.                                                   *)
(***************************************************************************)
C5_RoundTrip ==
    (ret.op = "load_state" /\ last_saved # None) => ret.value = last_saved

(* A new StateManager read back a state with both timestamps present. *)
C5_Witness ==
    /\ ret.op = "load_state"
    /\ ret.source = "file"
    /\ ret.value = last_saved
    /\ ret.value[1].is_enabled
    /\ ret.value[1].enabled_at # None
    /\ ret.value[1].disabled_at # None

(***************************************************************************)
(* C6 (Spec).  After any sequence of update_state calls, load_state, also  *)
(* in a new process on the same path, returns the is_enabled, enabled_at   *)
(* and disabled_at of the state the last update_state returned.            *)
(***************************************************************************)
C6_OutlivesRestart ==
    (ret.op = "load_state" /\ last_saved # None) => SameSwitch(ret.value[1], last_saved[1])

(* A new process loaded the record of a disable from the file. *)
C6_Witness ==
    /\ ret.op = "load_state"
    /\ ret.source = "file"
    /\ last_saved # None
    /\ SameSwitch(ret.value[1], last_saved[1])
    /\ ret.value[1].disabled_at # None

(***************************************************************************)
(* C7 (SpecFault).  When the write of the state file fails, the call does  *)
(* not raise, load_state in the same process returns the updated state,    *)
(* and the write leaves the state file as it was.                          *)
(***************************************************************************)
C7_FailedWriteKeepsMemory ==
    [][FailedWrite(ret')
         => /\ ret'.exc = ""
            /\ ret'.value = last_saved'
            /\ load_state(self_state', fs', now', NoFault).state = ret'.value
            /\ \/ fs'[state_file] = fs[state_file]
               \/ fs'[state_file] = load_state(self_state, fs, now, NoFault).fs[state_file]]_vars

(* A failed write left the older record in the file and the new in memory. *)
C7_Witness ==
    /\ ret.op = "update_state"
    /\ ret.source = "write"
    /\ ret.exc = ""
    /\ self_state = ret.value
    /\ fs[state_file].exists
    /\ load_state_try(fs, NoFault) = ""
    /\ from_dict(json_load(fs[state_file].text).items) # self_state[1]

(***************************************************************************)
(* C8 (SpecFault).  get_state_summary is read-only: load_state returns     *)
(* the same state after the call as before it.                             *)
(***************************************************************************)
C8_SummaryReadOnly ==
    [][ret'.op = "get_state_summary"
         => load_state(self_state', fs', now', NoFault).state
              = load_state(self_state, fs, now, NoFault).state]_vars

(***************************************************************************)
(* C9 (SpecFault).  load_state of a state file that is not parsable JSON   *)
(* does not raise, moves the file to the .corrupted path and returns the   *)
(* initial state.                                                          *)
(***************************************************************************)
C9_CorruptedFileSetAside ==
    [][(/\ ret'.op = "load_state"
        /\ self_state = None
        /\ fs[state_file].exists
        /\ json_load(fs[state_file].text).exc # ""
        /\ ret'.source \notin {"io error", "corrupted, no backup"})
         => /\ ret'.exc = ""
            /\ ret'.value = Some(get_initial_state(now))
            /\ self_state' = ret'.value
            /\ ~fs'[state_file].exists
            /\ fs'[backup_path] = fs[state_file]]_vars

(* An unparsable file was moved aside and the initial state returned. *)
C9_Witness ==
    /\ ret.op = "load_state"
    /\ ret.source = "corrupted"
    /\ ret.exc = ""
    /\ self_state = Some(get_initial_state(now))
    /\ ~fs[state_file].exists
    /\ fs[backup_path].exists
    /\ json_load(fs[backup_path].text).exc # ""

(***************************************************************************)
(* C10 (SpecFault).  load_state of a state file whose content is not a     *)
(* valid record, JSON or not, does not raise, moves the file aside and     *)
(* returns the initial state.                                              *)
(***************************************************************************)
C10_InvalidFileSetAside ==
    [][(/\ ret'.op = "load_state"
        /\ self_state = None
        /\ fs[state_file].exists
        /\ load_state_try(fs, NoFault) # ""
        /\ ret'.source \notin {"io error", "corrupted, no backup"})
         => /\ ret'.exc = ""
            /\ ret'.value = Some(get_initial_state(now))
            /\ ~fs'[state_file].exists
            /\ fs'[backup_path] = fs[state_file]]_vars

(***************************************************************************)
(* C11 (Spec).  An update_state call whose is_enabled equals the current   *)
(* value leaves enabled_at and disabled_at as they were; in particular a   *)
(* repeated update_state(True) never moves enabled_at.                     *)
(***************************************************************************)
C11_SameValueKeepsTimestamps ==
    [][(ret'.op = "update_state" /\ Visible'.is_enabled = Visible.is_enabled)
         => /\ Visible'.enabled_at = Visible.enabled_at
            /\ Visible'.disabled_at = Visible.disabled_at]_vars

(* update_state(True) was called again after the enable: enabled_at is older. *)
C11_Witness ==
    /\ ret.op = "update_state"
    /\ self_state # None
    /\ self_state[1].is_enabled
    /\ self_state[1].last_check = now
    /\ self_state[1].enabled_at # None
    /\ self_state[1].enabled_at[1] < now

(***************************************************************************)
(* C12 (Spec).  After every update_state call that takes is_enabled from   *)
(* false to true, is_enabled is true, enabled_at is the time of the call   *)
(* (the same value as last_check) and disabled_at is absent.               *)
(***************************************************************************)
C12_EnableStampsEnabledAt ==
    [][(ret'.op = "update_state" /\ ~Visible.is_enabled /\ Visible'.is_enabled)
         => /\ Visible'.enabled_at = Some(now)
            /\ Visible'.enabled_at = Some(Visible'.last_check)
            /\ Visible'.disabled_at = None]_vars

(* UAM was just enabled, later than the start of the run. *)
C12_Witness ==
    /\ ret.op = "update_state"
    /\ self_state # None
    /\ self_state[1].is_enabled
    /\ self_state[1].enabled_at = Some(now)
    /\ self_state[1].disabled_at = None
    /\ last_transition = "enable"
    /\ now >= 2

(***************************************************************************)
(* C13 (Spec).  While UAM is enabled with enabled_at = T, for every        *)
(* minimum duration D, can_disable_uam(D) evaluated at time t is false at  *)
(* every t < T + D and true at every t >= T + D, t = T + D included.       *)
(***************************************************************************)
C13_CanDisableAtBoundary ==
    (Visible.is_enabled /\ Visible.enabled_at # None) =>
        \A D \in 0..MaxTime :
            \A t \in {u \in Times : u >= now} :
                can_disable_uam(Visible, t, D) <=> (t >= Visible.enabled_at[1] + D)

(* Exactly MinimumDwellSeconds after the enable: allowed now, not a second earlier. *)
C13_Witness ==
    /\ Visible.is_enabled
    /\ Visible.enabled_at # None
    /\ now = Visible.enabled_at[1] + MinimumDwellSeconds
    /\ can_disable_uam(Visible, now, MinimumDwellSeconds)
    /\ ~can_disable_uam(Visible, now, MinimumDwellSeconds + 1)

(***************************************************************************)
(* C14 (SpecBaseline).  After any sequence of add_sample calls the window  *)
(* never holds more than its capacity, and it holds exactly the most       *)
(* recent min(k, capacity) of the k samples observed, in arrival order.    *)
(***************************************************************************)
C14_WindowHoldsMostRecent ==
    LET k == Len(observed)
        kept == Min(k, max_samples)
    IN  /\ Len(samples) <= max_samples
        /\ samples = SubSeq(observed, k - kept + 1, k)

(* One more sample was observed than fits: the oldest one is gone. *)
C14_Witness ==
    /\ ret.op = "add_sample"
    /\ Len(observed) = max_samples + 1
    /\ Len(samples) = max_samples
    /\ samples[1] = observed[2]
    /\ samples[1] # observed[1]

(***************************************************************************)
(* The number of window samples inside the trailing window of the given    *)
(* hours at time t, boundary included.                                     *)
(***************************************************************************)
Qualifying(window, t, hours) ==
    Cardinality({i \in DOMAIN window : window[i][2] >= t - hours * 3600})

(***************************************************************************)
(* C15 (SpecBaseline).  A calculate_baseline call with fewer than 2        *)
(* qualifying samples returns None and leaves baseline and last_update as  *)
(* they were; the baseline is None, not zero, from construction until the  *)
(* first calculation with at least 2 qualifying samples.                   *)
(***************************************************************************)
C15_TooFewSamplesChangeNothing ==
    /\ (computed_at = None => baseline = None)
    /\ [][
           /\ (ret'.op = "calculate_baseline" /\ Qualifying(samples, now, ret'.args[1]) < 2)
               => (ret'.value = None /\ baseline' = baseline /\ last_update' = last_update)
           /\ (ret'.op = "calculate_baseline" /\ Qualifying(samples, now, ret'.args[1]) >= 2)
               => (computed_at' = Some(now))
           /\ (computed_at' = None => baseline' = None)
         ]_vars

(* With one qualifying sample the call returned None and the earlier baseline stayed. *)
C15_Witness ==
    /\ ret.op = "calculate_baseline"
    /\ ret.value = None
    /\ Qualifying(samples, now, ret.args[1]) = 1
    /\ baseline # None
    /\ last_update < now
    /\ computed_at = Some(last_update)

(***************************************************************************)
(* The window samples taken at or after time t - hours * 3600.             *)
(***************************************************************************)
InsideTrailingWindow(window, t, hours) ==
    SelectSeq(window, LAMBDA s : s[2] >= t - hours * 3600)

Loads_of(window) == [i \in 1..Len(window) |-> window[i][1]]

(***************************************************************************)
(* C16 (SpecBaseline).  calculate_baseline(hours) at time now uses exactly *)
(* the window samples with timestamp >= now - hours * 3600, the boundary   *)
(* included: it returns what the samples inside the trailing window give   *)
(* by themselves, whatever older samples the window holds.                 *)
(***************************************************************************)
C16_OnlyTrailingWindow ==
    [][ret'.op = "calculate_baseline" =>
          LET inside == InsideTrailingWindow(samples, now, ret'.args[1])
          IN  ret'.value = IF Len(inside) < 2
                           THEN None
                           ELSE Some(percentile_or_mean(Loads_of(inside)))]_vars

(* Two samples exactly at the cutoff were used, an older one of another load was not. *)
C16_Witness ==
    /\ ret.op = "calculate_baseline"
    /\ ret.value # None
    /\ Len(samples) = 3
    /\ samples[1][2] < now - ret.args[1] * 3600
    /\ samples[2][2] = now - ret.args[1] * 3600
    /\ samples[3][2] = now - ret.args[1] * 3600
    /\ samples[1][1] # samples[2][1]
    /\ samples[2][1] = samples[3][1]
    /\ ret.value = Some(samples[2][1])

(***************************************************************************)
(* C17 as stated (SpecQuantile).  For every count >= 2 of qualifying       *)
(* samples calculate_baseline returns the cut point at index               *)
(* idx = min(18, n - 1) of the n = min(20, count) quantile groups of the   *)
(* qualifying loads, and the mean only when statistics.quantiles cannot    *)
(* compute the cut points for that count.                                  *)
(***************************************************************************)
C17_QuantileBoundary ==
    [][ret'.op = "calculate_baseline" =>
          LET recent == Loads_of(InsideTrailingWindow(samples, now, ret'.args[1]))
              n == Min(20, Len(recent))
              idx == Min(18, n - 1)
          IN  Len(recent) >= 2 =>
                  IF quantiles_exc(recent, n) = ""
                  THEN /\ idx + 1 \in DOMAIN quantiles(recent, n)
                       /\ ret'.value = Some(quantiles(recent, n)[idx + 1])
                  ELSE ret'.value = Some(mean(recent))]_vars

(***************************************************************************)
(* C18 as stated (SpecBaseline).  With a fixed window of at least 2        *)
(* samples, a calculate_baseline call returns what the calculate_baseline  *)
(* call before it, with the same hours, returned when no add_sample came   *)
(* in between.                                                             *)
(***************************************************************************)
C18_RepeatedCallSameValue ==
    [][(/\ ret'.op = "calculate_baseline"
        /\ calculated # None
        /\ Len(samples) >= 2
        /\ ret'.args[1] = calculated[1].hours)
         => ret'.value = calculated[1].value]_vars

(***************************************************************************)
(* C18 as amended (SpecBaseline).  With a fixed window of at least 2       *)
(* samples, a calculate_baseline call returns what the calculate_baseline  *)
(* call before it returned when no add_sample came in between and the same *)
(* samples qualify at both calls; the baseline and last_update that the    *)
(* earlier call left make no difference.                                   *)
(***************************************************************************)
C18_RepeatedCallSameQualifying ==
    [][(/\ ret'.op = "calculate_baseline"
        /\ calculated # None
        /\ Len(samples) >= 2
        /\ Loads_of(InsideTrailingWindow(samples, now, ret'.args[1])) = calculated[1].recent)
         => ret'.value = calculated[1].value]_vars

(* A second call, later than the first and with no add_sample between, returned the baseline again. *)
C18_Witness ==
    /\ ret.op = "calculate_baseline"
    /\ calculated # None
    /\ calculated[1].calls = 2
    /\ calculated[1].since < now
    /\ Len(calculated[1].recent) >= 2
    /\ ret.value # None
    /\ ret.value = baseline
    /\ last_update = now

(***************************************************************************)
(* C19 (SpecBaseline).  Once a calculate_baseline call has produced a      *)
(* baseline, should_update_baseline(interval_seconds) returns true if and  *)
(* only if now - computedAt >= interval_seconds, computedAt being the time *)
(* of the last call that produced one.                                     *)
(***************************************************************************)
C19_ShouldUpdateIffIntervalElapsed ==
    (ret.op = "should_update_baseline" /\ computed_at # None) =>
        ret.value = Some(now - computed_at[1] >= ret.args[1])

(* Exactly one interval after the last successful calculation the answer is true. *)
C19_Witness ==
    /\ ret.op = "should_update_baseline"
    /\ computed_at # None
    /\ ret.args[1] > 0
    /\ now - computed_at[1] = ret.args[1]
    /\ ret.value = Some(TRUE)

(***************************************************************************)
(* The window after exactly one entry has been appended to it.             *)
(***************************************************************************)
WithOneMore(window, capacity, entry) ==
    LET appended == Append(window, entry)
    IN  SubSeq(appended, Len(appended) - Min(Len(appended), capacity) + 1, Len(appended))

(***************************************************************************)
(* C20 (SpecMonitor).  Every get_normalized_load call that succeeds, made  *)
(* directly or by is_high_load or is_low_load, computes the 5-minute load  *)
(* average divided by the CPU count, appends exactly one entry, that value *)
(* with the sample's timestamp, to the baseline window, and when made      *)
(* directly returns the value.                                             *)
(***************************************************************************)
C20_NormalizedLoadAppendsOne ==
    [][(ret'.op \in {"get_normalized_load", "is_high_load", "is_low_load"} /\ ret'.exc = "")
         => LET os == ret'.args[1]
                cpu_count == get_cpu_count(cpu_count_cache, cpu_count_cache_time, now, os).value
                normalized == float_div(os.getloadavg[1][2], cpu_count)
            IN  /\ ret'.op = "get_normalized_load" => ret'.value = Some(normalized)
                /\ samples' = WithOneMore(samples, max_samples, <<normalized, now>>)
                /\ observed' = Append(observed, <<normalized, now>>)]_vars

(* is_high_load sampled 4.0 on two CPUs: 2.0 is the newest entry of a full window. *)
C20_Witness ==
    /\ ret.op = "is_high_load"
    /\ ret.exc = ""
    /\ ret.args[1].getloadavg = Some(<<Float(1, 1), Float(4, 1), Float(2, 1)>>)
    /\ cpu_count_cache = Some(2)
    /\ Len(observed) = max_samples + 1
    /\ Len(samples) = max_samples
    /\ samples[Len(samples)] = <<Float(2, 1), now>>
    /\ samples[1] = observed[2]

(***************************************************************************)
(* C21 (SpecCpuCount).  get_cpu_count always returns an integer >= 1,      *)
(* whatever os.cpu_count() and the reads of /proc/cpuinfo and /proc/stat   *)
(* give (a value, nothing, zero or a failure): 1 when every method fails,  *)
(* never 0 and never None; the count it caches is >= 1 as well.            *)
(***************************************************************************)
C21_CpuCountAtLeastOne ==
    /\ cpu_count_cache # None => (cpu_count_cache[1] \in Nat /\ cpu_count_cache[1] >= 1)
    /\ ret.op = "get_cpu_count" =>
          /\ ret.value # None
          /\ ret.value[1] \in Nat
          /\ ret.value[1] >= 1
          /\ (ret.args[2] /\ ret.args[1].cpu_count = None /\ ret.args[1].cpuinfo = None)
                => ret.value = Some(1)

(* os.cpu_count() gave nothing, /proc/cpuinfo counted 0 and /proc/stat counted 0: 1. *)
C21_Witness ==
    /\ ret.op = "get_cpu_count"
    /\ ret.args[2]
    /\ ret.args[1].cpu_count = None
    /\ ret.args[1].cpuinfo = Some(0)
    /\ ret.args[1].stat = Some(0)
    /\ ret.value = Some(1)
    /\ cpu_count_cache = Some(1)

(***************************************************************************)
(* C22 (SpecCpuCount).  get_cpu_count asks the operating system only when  *)
(* nothing is cached or the cached count is 300 s old or older; a call     *)
(* made less than 300 s after the count was cached returns the cached      *)
(* count, a cached fallback 1 included, whatever the operating system      *)
(* would answer, and leaves the cache as it is.                            *)
(***************************************************************************)
C22_CacheTimeToLive ==
    [][ret'.op = "get_cpu_count" =>
          /\ ret'.args[2] <=> (cpu_count_cache = None \/ now - cpu_count_cache_time >= 300)
          /\ ~ret'.args[2] =>
                /\ ret'.value = cpu_count_cache
                /\ cpu_count_cache' = cpu_count_cache
                /\ cpu_count_cache_time' = cpu_count_cache_time
          /\ ret'.args[2] =>
                /\ cpu_count_cache' = ret'.value
                /\ cpu_count_cache_time' = now]_vars

(* 150 s after the fallback 1 was cached the call returns 1 although os.cpu_count() says 2. *)
C22_Witness ==
    /\ ret.op = "get_cpu_count"
    /\ ~ret.args[2]
    /\ ret.args[1].cpu_count = Some(2)
    /\ ret.value = Some(1)
    /\ cpu_count_cache = Some(1)
    /\ now - cpu_count_cache_time = 150

(***************************************************************************)
(* C23 (SpecSample).  When os.getloadavg() succeeds, get_load_average      *)
(* succeeds whatever /proc/loadavg is (missing, unreadable, short or       *)
(* malformed), and the three load values it returns are those of           *)
(* os.getloadavg().                                                        *)
(***************************************************************************)
C23_MetadataNeverFailsSampling ==
    (ret.op = "get_load_average" /\ ret.args[1].getloadavg # None) =>
        /\ ret.exc = ""
        /\ ret.value # None
        /\ <<ret.value[1].one_minute, ret.value[1].five_minute, ret.value[1].fifteen_minute>>
             = ret.args[1].getloadavg[1]
        /\ ret.value[1].timestamp = now

(* The total process count was not a number: the sample has the averages and the count read so far. *)
C23_Witness ==
    /\ ret.op = "get_load_average"
    /\ ret.exc = ""
    /\ ret.args[1].proc_loadavg.exc = ""
    /\ Len(ret.args[1].proc_loadavg.parts) = 5
    /\ ret.args[1].proc_loadavg.parts[4] = <<Some(2), None>>
    /\ ret.value[1].one_minute = Float(123, 100)
    /\ ret.value[1].running_processes = 2
    /\ ret.value[1].total_processes = 0
    /\ ret.value[1].last_pid = 0

(***************************************************************************)
(* C24 (SpecMonitor).  When os.getloadavg() fails, the error of            *)
(* get_load_average leaves get_normalized_load (also inside is_high_load   *)
(* and is_low_load) instead of a value, nothing is appended to the         *)
(* baseline window, and the state of the StateManager and its file are     *)
(* left as they were.                                                      *)
(***************************************************************************)
C24_FailedSampleChangesNothing ==
    [][(/\ ret'.op \in {"get_normalized_load", "is_high_load", "is_low_load"}
        /\ ret'.args[1].getloadavg = None)
         => /\ ret'.exc = "OSError"
            /\ ret'.value = None
            /\ samples' = samples
            /\ observed' = observed
            /\ baseline' = baseline
            /\ self_state' = self_state
            /\ fs' = fs]_vars

(* is_high_load failed on os.getloadavg(): the window still holds the earlier sample. *)
C24_Witness ==
    /\ ret.op = "is_high_load"
    /\ ret.exc = "OSError"
    /\ ret.value = None
    /\ ret.args[1].getloadavg = None
    /\ Len(samples) = 1
    /\ observed = samples
    /\ samples[1][2] < now

(***************************************************************************)
(* C25 (SpecMonitor).  The threshold is_high_load and is_low_load compare  *)
(* against is the baseline times the multiplier exactly when relative      *)
(* thresholds are enabled and a baseline is present, and the absolute      *)
(* threshold passed in every other case.                                   *)
(***************************************************************************)
C25_EffectiveThreshold ==
    [][(ret'.op \in {"is_high_load", "is_low_load"})
         => IF ret'.args[3] /\ baseline # None
            THEN ret'.args[5].num * baseline[1].den * ret'.args[4].den
                   = baseline[1].num * ret'.args[4].num * ret'.args[5].den
            ELSE ret'.args[5] = ret'.args[2]]_vars

(* is_low_load compared against a baseline times 3/2 that differs from the absolute 1. *)
C25_Witness ==
    /\ ret.op = "is_low_load"
    /\ ret.exc = ""
    /\ ret.args[3]
    /\ baseline # None
    /\ ret.args[4] = Float(3, 2)
    /\ 2 * ret.args[5].num * baseline[1].den = 3 * baseline[1].num * ret.args[5].den
    /\ ret.args[5] # ret.args[2]

C27_SystemInfoPropagates ==
    (ret.op = "get_system_info" /\ ret.args[1].getloadavg = None) =>
        (ret.exc # "" /\ ret.value = None)

(***************************************************************************)
(* C28 as stated (SpecConcurrent).  With two processes running save_state  *)
(* on the same path, their steps interleaved, the state file at every      *)
(* moment holds a complete record written by one of them, never an empty,  *)
(* truncated or mixed one.  Violated: both use the same temporary name.    *)
(***************************************************************************)
CompleteRecord ==
    ~fs[state_file].exists
    \/ \E p \in Processes : \E state \in WriterStates(p) :
          fs[state_file].text = json_dump(to_dict(state))

C28_AlwaysCompleteRecord == CompleteRecord

(***************************************************************************)
(* C28 as amended (SpecConcurrent).  As long as no two save_state calls    *)
(* on the path have been in progress at once, the state file at every      *)
(* moment, between any two steps of a call, is absent or holds a complete  *)
(* record written by one of the processes.                                 *)
(***************************************************************************)
C28_CompleteRecordWhenSerialized == ~overlapped => CompleteRecord

(* The override is half way through a save, its temporary file still empty, after a save *)
(* of the tick; the calls never overlapped and the state file holds the tick's record.   *)
C28_Witness ==
    /\ ~overlapped
    /\ writers["override"].pc = "dump"
    /\ writers["tick"].pc = "idle"
    /\ fs[temp_path] = File(<<>>)
    /\ fs[state_file].exists
    /\ \E state \in WriterStates("tick") : fs[state_file].text = json_dump(to_dict(state))

(***************************************************************************)
(* C29 (SpecActuate).  Persistence follows confirmed actuation: a tick or  *)
(* manual override whose SetLevel call failed or was cancelled leaves the  *)
(* state file and the state the controller sees as before the call, and    *)
(* whenever a step switches the persisted is_enabled, the call succeeded   *)
(* and the zone is at the level of the new state.                          *)
(***************************************************************************)
C29_PersistenceFollowsActuation ==
    [][
        /\ (ret'.op \in {"check_and_act", "enable_uam", "disable_uam"}
            /\ ret'.value[1].error # "")
              => (fs' = fs /\ SameSwitch(Visible', Visible))
        /\ (Visible'.is_enabled # Visible.is_enabled)
              => /\ ret'.op \in {"check_and_act", "enable_uam", "disable_uam"}
                 /\ ret'.value[1].error = ""
                 /\ server'.security_level = level_for(Visible'.is_enabled)
      ]_vars

(* A tick that decided to enable was refused by the rate-limited server: the file still *)
(* holds the disabled state written by an earlier tick.                                *)
C29_Witness ==
    /\ ret.op = "check_and_act"
    /\ ret.value[1].error = "RateLimitError"
    /\ fs[state_file].exists
    /\ ~Visible.is_enabled
    /\ Visible.disabled_at # None
    /\ server.security_level = "essentially_off"

(***************************************************************************)
(* C30 (SpecActuate).  When the server has reached its rate limit and a    *)
(* tick or override sends a SetLevel write, every attempt is answered 429: *)
(* the retrying stops once the next Retry-After would pass MaxTotalWait,   *)
(* the call reports RateLimitError with action "none", and the state file, *)
(* the visible state and the zone are as before the call.                  *)
(***************************************************************************)
C30_RateLimitExhausted ==
    [][
        (/\ ret'.op \in {"check_and_act", "enable_uam", "disable_uam"}
         /\ server.rate_limit_counter >= RateLimitAfter
         /\ ret'.value[1].writes > 0
         /\ ret'.value[1].error # "cancelled")
          => /\ ret'.value[1].error = "RateLimitError"
             /\ ret'.value[1].action = "none"
             /\ ret'.value[1].waited <= MaxTotalWait
             /\ ret'.value[1].waited + RetryAfter > MaxTotalWait
             /\ ret'.value[1].writes = ret'.value[1].waited \div RetryAfter + 1
             /\ now' = now + ret'.value[1].waited
             /\ fs' = fs
             /\ SameSwitch(Visible', Visible)
             /\ server' = server
      ]_vars

(* A manual enable gave up after waiting twice for Retry-After; UAM is still off. *)
C30_Witness ==
    /\ ret.op = "enable_uam"
    /\ ret.value[1].error = "RateLimitError"
    /\ ret.value[1].writes > 1
    /\ ret.value[1].waited = MaxWaited
    /\ now = MaxWaited
    /\ server = Server("essentially_off", RateLimitAfter)
    /\ ~Visible.is_enabled

(***************************************************************************)
(* C31 (SpecActuate).  SetLevel is idempotent: a manual override whose     *)
(* target level the zone already has succeeds without a write, so the      *)
(* server and its count of accepted writes are untouched, and an override  *)
(* repeated right after a successful one sends no write.                   *)
(***************************************************************************)
C31_SetLevelIdempotent ==
    [][
        /\ (ret'.op \in {"enable_uam", "disable_uam"}
            /\ server.security_level = level_for(ret'.op = "enable_uam"))
              => /\ ret'.value[1].error = ""
                 /\ ret'.value[1].writes = 0
                 /\ server' = server
        /\ (ret'.op \in {"enable_uam", "disable_uam"}
            /\ ret.op = ret'.op
            /\ ret.value[1].error = "")
              => /\ ret'.value[1].writes = 0
                 /\ server'.rate_limit_counter = server.rate_limit_counter
      ]_vars

(* A manual enable while the zone was under attack already and the server rate-limited: *)
(* success, no write.                                                                   *)
C31_Witness ==
    /\ ret.op = "enable_uam"
    /\ ret.value[1].error = ""
    /\ ret.value[1].writes = 0
    /\ server = Server("under_attack", RateLimitAfter)
    /\ Visible.is_enabled

(***************************************************************************)
(* C32 (SpecActuate).  Initialize never raises; it returns true exactly    *)
(* when the server is reachable and the token is a valid Bearer token, so  *)
(* that credential verification and the level query both succeed, and      *)
(* false with a reason otherwise.                                          *)
(***************************************************************************)
C32_InitializeReportsHealth ==
    (ret.op = "initialize") =>
        /\ ret.exc = ""
        /\ ret.value[1].success <=>
              (ret.args[2] /\ ret.args[1] = Header("Bearer", "test_token"))
        /\ ~ret.value[1].success => ret.value[1].reason # ""

(* Initialize with the invalid token of test_error_handling against a reachable server. *)
C32_Witness ==
    /\ ret.op = "initialize"
    /\ ret.args = <<Header("Bearer", "invalid_token"), TRUE>>
    /\ ret.value = Some(Initialized(FALSE, "AuthError"))

C34_IndexInRange ==
    [][ret'.op = "calculate_baseline" =>
          LET recent == Loads_of(InsideTrailingWindow(samples, now, ret'.args[1]))
              n == Min(20, Len(recent))
              idx == Min(18, n - 1)
          IN  Len(recent) >= 2 =>
                  /\ Len(quantiles(recent, n)) = n - 1
                  /\ idx <= n - 2
                  /\ quantile_exc(recent) # "IndexError"]_vars

(***************************************************************************)
(* C35 as stated (SpecBand).  With relative thresholds, a baseline present *)
(* and the upper multiplier 2 above the lower multiplier 3/2, the          *)
(* threshold is_high_load compares against is strictly greater than the    *)
(* one is_low_load compares against, whatever the baseline.  Violated by   *)
(* a baseline of 0, which an idle machine gives: both thresholds are 0.    *)
(***************************************************************************)
C35_BandNeverEmpty ==
    baseline # None =>
        float_lt(threshold_to_use(baseline, Float(AbsoluteLower, 1), TRUE, Float(3, 2)),
                 threshold_to_use(baseline, Float(AbsoluteUpper, 1), TRUE, Float(2, 1)))

(***************************************************************************)
(* C36: can_disable_uam(D) returns true for every D whenever no dwell      *)
(* duration can be computed: when the state is not enabled, or when it is  *)
(* enabled and enabled_at is absent, as in a record loaded from a state    *)
(* file with is_enabled true and no enabled_at.                            *)
(***************************************************************************)
C36_CanDisableWithoutDuration ==
    /\ (~Visible.is_enabled \/ Visible.enabled_at = None) =>
          \A D \in Durations : can_disable_uam(Visible, now, D)
    /\ (/\ ret.op = "can_disable_uam"
        /\ ~self_state[1].is_enabled \/ self_state[1].enabled_at = None) =>
          ret.value = Some(TRUE)

C36_Witness ==
    /\ ret.op = "can_disable_uam"
    /\ self_state # None
    /\ self_state[1].is_enabled
    /\ self_state[1].enabled_at = None
    /\ fs[state_file] = File(LegacyText)
    /\ ret.args[1] > now
    /\ ret.value = Some(TRUE)

(***************************************************************************)
(* C37 (SpecBaseline).  As long as no calculate_baseline call has produced *)
(* a baseline, last_update is still 0.0 and should_update_baseline(        *)
(* interval) is true on every call, so the recalculation is attempted      *)
(* again each tick; after a successful calculation it is false until       *)
(* interval seconds have elapsed.                                          *)
(***************************************************************************)
C37_RetriedUntilFirstSuccess ==
    /\ computed_at = None => last_update = 0
    /\ ret.op = "should_update_baseline" =>
          /\ computed_at = None => ret.value = Some(TRUE)
          /\ (computed_at # None /\ now - computed_at[1] < ret.args[1]) =>
                ret.value = Some(FALSE)

(* After a calculation that failed, the longest interval is still due. *)
C37_Witness ==
    /\ ret.op = "should_update_baseline"
    /\ computed_at = None
    /\ calculated # None
    /\ calculated[1].value = None
    /\ ret.args[1] = StartTime
    /\ ret.value = Some(TRUE)

(***************************************************************************)
(* The record the state file holds.                                        *)
(***************************************************************************)
OnDisk == from_dict(json_load(fs[state_file].text).items)

(***************************************************************************)
(* C38 (SpecShared).  Once a StateManager holds an in-memory copy, every   *)
(* later load_state, update_state and can_disable_uam is served from that  *)
(* copy, whatever another writer has put into the state file meanwhile;    *)
(* only get_state_summary discards the copy and reads the file again.      *)
(***************************************************************************)
C38_ServedFromMemory ==
    [][/\ (self_state # None /\ ret'.op = "load_state") =>
             /\ ret'.value = self_state
             /\ self_state' = self_state
       /\ (self_state # None /\ ret'.op = "can_disable_uam") =>
             /\ ret'.value = Some(can_disable_uam(self_state[1], now, ret'.args[1]))
             /\ self_state' = self_state
       /\ (self_state # None /\ ret'.op = "update_state") =>
             \E call \in Calls :
                 self_state' = Some(updated_state(self_state[1], now, call.is_enabled,
                                                  call.load_average, call.threshold_used,
                                                  call.reason))
       /\ (ret'.op = "get_state_summary" /\ fs[state_file].exists) =>
             self_state' = Some(OnDisk)
       /\ (self_state # None /\ self_state' # None /\ self_state'[1] # self_state[1]) =>
             ret'.op \in {"update_state", "get_state_summary", "clear_state"}]_vars

(* A load_state answered from memory while the file says the opposite. *)
C38_Witness ==
    /\ ret.op = "load_state"
    /\ ret.source = "memory"
    /\ fs[state_file].exists
    /\ OnDisk.is_enabled # self_state[1].is_enabled
    /\ ret.value = self_state

(***************************************************************************)
(* C39 (SpecShared).  After clear_state, whatever the cached state and the *)
(* state file were before, load_state returns the initial state            *)
(* (is_enabled false, enabled_at and disabled_at absent, load and          *)
(* threshold 0), in this StateManager and in a new one on the same path,   *)
(* and the state file holds that same record.                              *)
(***************************************************************************)
C39_ClearStateResets ==
    ret.op = "clear_state" =>
        /\ ret.exc = ""
        /\ load_state(self_state, fs, now, NoFault).state = Some(get_initial_state(now))
        /\ load_state(None, fs, now, NoFault).state = Some(get_initial_state(now))
        /\ ~Visible.is_enabled
        /\ Visible.enabled_at = None
        /\ Visible.disabled_at = None
        /\ Visible.load_average = 0
        /\ Visible.threshold_used = 0
        /\ fs[state_file] = File(json_dump(to_dict(get_initial_state(now))))

(* clear_state on a StateManager whose copy and whose file said enabled. *)
C39_Witness ==
    /\ ret.op = "clear_state"
    /\ ret.args[1] # None
    /\ ret.args[1][1].is_enabled
    /\ ret.args[1][1].enabled_at # None
    /\ ret.args[2].exists
    /\ now > 0
    /\ fs[state_file] = File(json_dump(to_dict(get_initial_state(now))))
====
